---------------------------- MODULE Spec2Model ----------------------------
(***************************************************************************)
(* quuid.c: the streaming GUID scanner.  The model covers the pattern      *)
(* matchers (match_guid_ascii_at, the memory-layout heuristics), the       *)
(* deduplication set (GUIDSET), the chunked reader                          *)
(* (scan_stream_for_guids) and the tree walk (scan_path_recursive).        *)
(*                                                                         *)
(* A GUID is kept as its 16-byte memory image (little-endian Data1, Data2, *)
(* Data3, then Data4[0..7]): that image is what memcmp, memcpy and fnv1a64 *)
(* in the source operate on.  Bytes are the integers 0..255.               *)
(***************************************************************************)
EXTENDS Integers, Sequences, FiniteSets, TLC

VARIABLES
    set,        \* GUIDSET: [items, used, cap, len]
    st,         \* SCANSTATS: [files_scanned, bytes_scanned, ascii_hits, bin_hits]
    opt,        \* SCANOPTS: [with_registry, binary_scan, binary_loose, locate,
                \*            one_line]
    out,        \* the records locate_hit printed, in order
    hits,       \* history: every counted hit [off, kind, n, g], locate or not
    file,       \* the file being read: [bytes, placed]
    fpos,       \* the file pointer of the open handle
    keep,       \* scan_stream_for_guids: keep
    base_off,   \* scan_stream_for_guids: base_off
    buf,        \* scan_stream_for_guids: buf[0 .. keep-1], the carried bytes
    pc,         \* where the running command is
    add_failed, \* history: some guidset_add returned 0
    ret,        \* the value the last operation returned
    added,      \* history: the identifiers guidset_add accepted (returned 1)
    dups,       \* history: accepted guidset_add calls for an identifier in added
    fs,         \* the file system the walk runs on
    stack,      \* scan_path_recursive: the active calls, innermost last
    visited,    \* history: the paths scan_path_recursive was called with
    scanned,    \* history: the paths scan_stream_for_guids was called with
    win,        \* the input of a pure function: a 16-byte window handed to
                \* the binary heuristics, the case of a text handed to the
                \* matcher
    nshort,     \* history: how many reads returned fewer bytes than available
    reads,      \* history: the byte counts ReadFile returned for this file
    errs,       \* history: the calls of the walk that failed, [api, path]
    g_opt,      \* the global OPTS g_opt: [verbose, reg_view, both_views]
    frame,      \* the registry helper that is running: its name, its
                \* viewFlag, its local saved; history: reg_view at its entry
    calls,      \* the calls cmd_find and query_all_categories have yet to
                \* make, next first
    view0       \* history: g_opt.reg_view when the command started

vars == <<set, st, opt, out, hits, file, fpos, keep, base_off, buf, pc,
          add_failed, ret, added, dups, fs, stack, visited, scanned, win,
          nshort, reads, errs, g_opt, frame, calls, view0>>

---------------------------------------------------------------------------
(* Bytes and bit operations                                                *)

Min(a, b) == IF a < b THEN a ELSE b

RECURSIVE BitXorRec(_, _)
\* a ^ b on non-negative integers, bit by bit
BitXorRec(a, b) ==
    IF a = 0 THEN b
    ELSE IF b = 0 THEN a
    ELSE (((a % 2) + (b % 2)) % 2) + 2 * BitXorRec(a \div 2, b \div 2)

RECURSIVE BitAndRec(_, _)
\* a & b on non-negative integers, bit by bit
BitAndRec(a, b) ==
    IF a = 0 \/ b = 0 THEN 0
    ELSE ((a % 2) * (b % 2)) + 2 * BitAndRec(a \div 2, b \div 2)

\* the same operations on 4-bit digits, tabulated, and on 16-bit values
Xor4 == [a \in 0..15 |-> [b \in 0..15 |-> BitXorRec(a, b)]]
And4 == [a \in 0..15 |-> [b \in 0..15 |-> BitAndRec(a, b)]]

BitXor(a, b) ==
    Xor4[a % 16][b % 16]
    + 16 * Xor4[(a \div 16) % 16][(b \div 16) % 16]
    + 256 * Xor4[(a \div 256) % 16][(b \div 256) % 16]
    + 4096 * Xor4[(a \div 4096) % 16][(b \div 4096) % 16]

BitAnd(a, b) ==
    And4[a % 16][b % 16]
    + 16 * And4[(a \div 16) % 16][(b \div 16) % 16]
    + 256 * And4[(a \div 256) % 16][(b \div 256) % 16]
    + 4096 * And4[(a \div 4096) % 16][(b \div 4096) % 16]

\* ASCII codes of the characters the matchers test
ChDash   == 45
ChZero   == 48
ChNine   == 57
ChUpA    == 65
ChUpF    == 70
ChLoA    == 97
ChLoF    == 102
ChLBrace == 123
ChRBrace == 125

\* p[i] for a C pointer p = base + off into the byte sequence base
At(base, off, i) == base[off + i + 1]

---------------------------------------------------------------------------
(* small utils                                                             *)

hex_val8(c) ==
    IF c >= ChZero /\ c <= ChNine THEN c - ChZero
    ELSE IF c >= ChLoA /\ c <= ChLoF THEN 10 + (c - ChLoA)
    ELSE IF c >= ChUpA /\ c <= ChUpF THEN 10 + (c - ChUpA)
    ELSE -1

\* a mutant of parse_u32_hex_n: the digits are taken least significant first
parse_u32_hex_reversed(base, off, n) ==
    LET hv(i) == hex_val8(At(base, off, i))
    IN  IF \E i \in 0..(n - 1) : hv(i) < 0 THEN -1
        ELSE ((hv(3) * 16 + hv(2)) * 16 + hv(1)) * 16 + hv(0)

\* parse_u32_hex_n for the n = 4 digit groups the model parses (the loop
\* v = (v << 4) | hv written out); -1 is "return 0"
parse_u32_hex_n(base, off, n) ==
    LET hv(i) == hex_val8(At(base, off, i))
    IN  IF \E i \in 0..(n - 1) : hv(i) < 0 THEN -1
        ELSE ((hv(0) * 16 + hv(1)) * 16 + hv(2)) * 16 + hv(3)

\* parse_u16_hex_n: the value truncated to unsigned short
parse_u16_hex_n(base, off, n) ==
    LET v == parse_u32_hex_n(base, off, n)
    IN  IF v < 0 THEN -1 ELSE v % 65536

IsHexByte(c) ==
    \/ (c >= ChZero /\ c <= ChNine)
    \/ (c >= ChLoA /\ c <= ChLoF)
    \/ (c >= ChUpA /\ c <= ChUpF)

DashAt(i) == i = 8 \/ i = 13 \/ i = 18 \/ i = 23

\* the validation loop at the head of parse_guid_ascii36
Ascii36Shape(base, off) ==
    \A i \in 0..35 :
        IF DashAt(i) THEN At(base, off, i) = ChDash
        ELSE IsHexByte(At(base, off, i))

\* The 32-bit Data1 is accumulated as two 16-bit halves (v << 4 | hv over 8
\* digits gives hi * 65536 + lo); its memory image is lo, lo>>8, hi, hi>>8.
parse_guid_ascii36(base, off) ==
    IF ~Ascii36Shape(base, off) THEN [ok |-> 0, g |-> <<>>]
    ELSE
      LET d1hi == parse_u32_hex_n(base, off + 0, 4)
          d1lo == parse_u32_hex_n(base, off + 4, 4)
          d2   == parse_u16_hex_n(base, off + 9, 4)
          d3   == parse_u16_hex_n(base, off + 14, 4)
          d4_0 == parse_u16_hex_n(base, off + 19, 4)
          hi(i) == hex_val8(At(base, off, 24 + i * 2))
          lo(i) == hex_val8(At(base, off, 24 + i * 2 + 1))
      IN  IF d1hi < 0 \/ d1lo < 0 \/ d2 < 0 \/ d3 < 0 \/ d4_0 < 0
             \/ \E i \in 0..5 : hi(i) < 0 \/ lo(i) < 0
          THEN [ok |-> 0, g |-> <<>>]
          ELSE [ok |-> 1,
                g  |-> << d1lo % 256, d1lo \div 256, d1hi % 256, d1hi \div 256,
                          d2 % 256, d2 \div 256,
                          d3 % 256, d3 \div 256,
                          (d4_0 \div 256) % 256, d4_0 % 256,
                          hi(0) * 16 + lo(0), hi(1) * 16 + lo(1),
                          hi(2) * 16 + lo(2), hi(3) * 16 + lo(3),
                          hi(4) * 16 + lo(4), hi(5) * 16 + lo(5) >>]

BracedLen   == 38
UnbracedLen == 36

\* a mutant of match_guid_ascii_at: the closing brace is not looked at
match_no_close_test(base, off, remaining) ==
    IF remaining >= 38 /\ At(base, off, 0) = ChLBrace
    THEN LET r == parse_guid_ascii36(base, off + 1)
         IN  IF r.ok = 1 THEN [ok |-> 1, consumed |-> 38, g |-> r.g]
             ELSE [ok |-> 0, consumed |-> 0, g |-> <<>>]
    ELSE IF remaining >= 36
    THEN LET r == parse_guid_ascii36(base, off)
         IN  IF r.ok = 1 THEN [ok |-> 1, consumed |-> 36, g |-> r.g]
             ELSE [ok |-> 0, consumed |-> 0, g |-> <<>>]
    ELSE [ok |-> 0, consumed |-> 0, g |-> <<>>]

match_guid_ascii_at(base, off, remaining) ==
    IF remaining >= BracedLen /\ At(base, off, 0) = ChLBrace
                              /\ At(base, off, 37) = ChRBrace
    THEN LET r == parse_guid_ascii36(base, off + 1)
         IN  IF r.ok = 1 THEN [ok |-> 1, consumed |-> BracedLen, g |-> r.g]
             ELSE [ok |-> 0, consumed |-> 0, g |-> <<>>]
    ELSE IF remaining >= UnbracedLen
    THEN LET r == parse_guid_ascii36(base, off)
         IN  IF r.ok = 1 THEN [ok |-> 1, consumed |-> UnbracedLen, g |-> r.g]
             ELSE [ok |-> 0, consumed |-> 0, g |-> <<>>]
    ELSE [ok |-> 0, consumed |-> 0, g |-> <<>>]

VariantMask == 192
VariantBits == 128

\* a mutant of the loose test: the wrong variant pattern (11xx xxxx)
loose_wrong_variant(b) == BitAnd(b[9], VariantMask) = VariantMask

looks_like_guid_memlayout_loose(b) == BitAnd(b[9], VariantMask) = VariantBits

\* a mutant of the strict test: version nibble 0 passes
strict_accepts_version0(b) ==
    IF BitAnd(b[9], VariantMask) # VariantBits THEN FALSE
    ELSE LET v == b[8] \div 16
         IN  ~(v > 5)

looks_like_guid_memlayout_rfc4122(b) ==
    IF BitAnd(b[9], VariantMask) # VariantBits THEN FALSE
    ELSE LET v == b[8] \div 16
         IN  ~(v < 1 \/ v > 5)

---------------------------------------------------------------------------
(* GUID set (dedupe)                                                       *)

\* fnv1a64 is used only through (size_t)h & (cap - 1) with cap <= 2^16, and
\* xor and multiplication modulo 2^64 commute with reduction modulo 2^16, so
\* the hash is carried modulo 2^16: the offset basis and the prime below are
\* the source's 64-bit constants reduced modulo 2^16.
HashMod      == 65536
FnvBasisLow  == 899
FnvPrimeLow  == 435

RECURSIVE fnv_loop(_, _, _)
fnv_loop(p, i, h) ==
    IF i > Len(p) THEN h
    ELSE fnv_loop(p, i + 1, (BitXor(h, p[i]) * FnvPrimeLow) % HashMod)

fnv1a64(p) == fnv_loop(p, 1, FnvBasisLow)

guid_equal(a, b) == a = b

ZeroGuid == [i \in 1..16 |-> 0]

MinCap == 64

RECURSIVE cap_loop(_, _)
\* while (cap < want) cap <<= 1
cap_loop(cap, want) == IF cap < want THEN cap_loop(cap * 2, want) ELSE cap

\* a mutant of guidset_init: the wanted capacity is not rounded up to a
\* power of two
guidset_init_no_round(initialCapPow2, heapOk) ==
    LET cap == IF initialCapPow2 < MinCap THEN MinCap ELSE initialCapPow2
    IN  [ok |-> IF heapOk THEN 1 ELSE 0,
         s  |-> [items |-> [i \in 1..cap |-> ZeroGuid],
                 used  |-> [i \in 1..cap |-> 0],
                 cap   |-> cap,
                 len   |-> 0]]

\* guidset_init; heapOk says whether both HeapAlloc calls succeed
guidset_init(initialCapPow2, heapOk) ==
    LET want == IF initialCapPow2 < MinCap THEN MinCap ELSE initialCapPow2
        cap  == cap_loop(1, want)
    IN  [ok |-> IF heapOk THEN 1 ELSE 0,
         s  |-> [items |-> [i \in 1..cap |-> ZeroGuid],
                 used  |-> [i \in 1..cap |-> 0],
                 cap   |-> cap,
                 len   |-> 0]]

RECURSIVE rehash_probe(_, _, _)
\* the inner for(;;) of guidset_rehash: place g in ns from slot pos
rehash_probe(ns, g, pos) ==
    IF ns.used[pos + 1] = 0
    THEN [ns EXCEPT !.used[pos + 1] = 1, !.items[pos + 1] = g, !.len = @ + 1]
    ELSE rehash_probe(ns, g, BitAnd(pos + 1, ns.cap - 1))

\* one iteration of the outer loop of guidset_rehash, for old slot i
rehash_slot(s, ns, i) ==
    IF s.used[i + 1] = 0 THEN ns
    ELSE LET g   == s.items[i + 1]
             pos == BitAnd(fnv1a64(g), ns.cap - 1)
         IN  rehash_probe(ns, g, pos)

RECURSIVE rehash_loop(_, _, _, _)
\* the outer loop of guidset_rehash over the old slots lo .. hi-1, in
\* ascending order (the range is split in two to keep evaluation shallow)
rehash_loop(s, ns, lo, hi) ==
    IF hi <= lo THEN ns
    ELSE IF hi = lo + 1 THEN rehash_slot(s, ns, lo)
    ELSE LET mid == (lo + hi) \div 2
             ns1 == rehash_loop(s, ns, lo, mid)
         IN  IF ns1.len >= 0 THEN rehash_loop(s, ns1, mid, hi) ELSE ns1

\* a mutant of guidset_rehash: the last old slot is not carried over
rehash_drops_last(s, newCap, heapOk) ==
    LET r == guidset_init(newCap, heapOk)
    IN  IF r.ok = 0 THEN [ok |-> 0, s |-> s]
        ELSE [ok |-> 1, s |-> rehash_loop(s, r.s, 0, s.cap - 1)]

\* a mutant of guidset_rehash: the new table replaces the old one before the
\* result of guidset_init is looked at
rehash_swaps_first(s, newCap, heapOk) ==
    LET r == guidset_init(newCap, heapOk)
    IN  IF r.ok = 0 THEN [ok |-> 0, s |-> r.s]
        ELSE [ok |-> 1, s |-> rehash_loop(s, r.s, 0, s.cap)]

guidset_rehash(s, newCap, heapOk) ==
    LET r == guidset_init(newCap, heapOk)
    IN  IF r.ok = 0 THEN [ok |-> 0, s |-> s]
        ELSE [ok |-> 1, s |-> rehash_loop(s, r.s, 0, s.cap)]

RECURSIVE add_probe(_, _, _)
\* the for(;;) of guidset_add
add_probe(s, g, pos) ==
    IF s.used[pos + 1] = 0
    THEN [s EXCEPT !.used[pos + 1] = 1, !.items[pos + 1] = g, !.len = @ + 1]
    ELSE IF guid_equal(s.items[pos + 1], g) THEN s
    ELSE add_probe(s, g, BitAnd(pos + 1, s.cap - 1))

\* a mutant of guidset_add: the equality test of the probe is missing
add_no_equal_test(s, g, heapOk) ==
    LET grow == (s.len + 1) * 10 >= s.cap * 7
        r    == IF grow THEN guidset_rehash(s, s.cap * 2, heapOk)
                ELSE [ok |-> 1, s |-> s]
    IN  IF r.ok = 0 THEN [ok |-> 0, s |-> r.s]
        ELSE [ok |-> 1,
              s  |-> rehash_probe(r.s, g, BitAnd(fnv1a64(g), r.s.cap - 1))]

\* a mutant of guidset_add: the table never grows
add_never_grows(s, g, heapOk) ==
    [ok |-> 1, s |-> add_probe(s, g, BitAnd(fnv1a64(g), s.cap - 1))]

\* a mutant of guidset_add: the growth test looks at len, not at len + 1
add_grows_late(s, g, heapOk) ==
    LET grow == s.len * 10 >= s.cap * 7
        r    == IF grow THEN guidset_rehash(s, s.cap * 2, heapOk)
                ELSE [ok |-> 1, s |-> s]
    IN  IF r.ok = 0 THEN [ok |-> 0, s |-> r.s]
        ELSE [ok |-> 1,
              s  |-> add_probe(r.s, g, BitAnd(fnv1a64(g), r.s.cap - 1))]

guidset_add(s, g, heapOk) ==
    LET grow == (s.len + 1) * 10 >= s.cap * 7
        r    == IF grow THEN guidset_rehash(s, s.cap * 2, heapOk)
                ELSE [ok |-> 1, s |-> s]
    IN  IF r.ok = 0 THEN [ok |-> 0, s |-> r.s]
        ELSE [ok |-> 1,
              s  |-> add_probe(r.s, g, BitAnd(fnv1a64(g), r.s.cap - 1))]

\* a mutant of guidset_foreach: the used flag is not looked at
foreach_all_slots(s) == [i \in 1..s.cap |-> s.items[i]]

\* the identifiers guidset_foreach passes to its callback, slot by slot
guidset_foreach(s) ==
    LET idx == {i \in 1..s.cap : s.used[i] = 1}
    IN  [i \in idx |-> s.items[i]]

RECURSIVE find_probe(_, _, _, _)
\* probing for g from slot pos as guidset_add does, at most n steps:
\* TRUE iff an equal identifier is met before an empty slot
find_probe(s, g, pos, n) ==
    IF n = 0 \/ s.used[pos + 1] = 0 THEN FALSE
    ELSE IF guid_equal(s.items[pos + 1], g) THEN TRUE
    ELSE find_probe(s, g, BitAnd(pos + 1, s.cap - 1), n - 1)

Retrievable(s, g) == find_probe(s, g, BitAnd(fnv1a64(g), s.cap - 1), s.cap)

Occupied(s) == {i \in 1..s.cap : s.used[i] = 1}
Stored(s)   == {s.items[i] : i \in Occupied(s)}

---------------------------------------------------------------------------
(* scanning: scan_stream_for_guids                                         *)

\* CHUNK is 4 MiB in the source; the model reads in chunks of CHUNK bytes
\* with the source's overlap and the source's pattern lengths.
CHUNK   == 80
OVERLAP == 64

\* The sink of a scan: what one pass over the buffer updates.
Sink(s, t, o, h, f) ==
    [set |-> s, st |-> t, out |-> o, hits |-> h, add_failed |-> f]

\* locate_hit: one printed record
locate_hit(path, off, kind, g) ==
    [path |-> path, off |-> off, kind |-> kind, g |-> g]

\* a mutant of ascii_hit: a location record is printed only for an identifier
\* that is not in the set yet
ascii_hit_locates_new_only(k, path, o, base, i, m, heapOk) ==
    LET r == guidset_add(k.set, m.g, heapOk)
    IN  [set  |-> r.s,
         st   |-> [k.st EXCEPT !.ascii_hits = @ + 1],
         out  |-> IF o.locate = 1 /\ ~Retrievable(k.set, m.g)
                  THEN Append(k.out, locate_hit(path, base + i, "ascii", m.g))
                  ELSE k.out,
         hits |-> Append(k.hits, [off |-> base + i, kind |-> "ascii",
                                   n |-> m.consumed, g |-> m.g]),
         add_failed |-> (k.add_failed \/ r.ok = 0)]

\* the body of the ASCII loop taken on a match at buffer index i; the result
\* of guidset_add is not looked at
ascii_hit(k, path, o, base, i, m, heapOk) ==
    LET r == guidset_add(k.set, m.g, heapOk)
    IN  [set  |-> r.s,
         st   |-> [k.st EXCEPT !.ascii_hits = @ + 1],
         out  |-> IF o.locate = 1
                  THEN Append(k.out, locate_hit(path, base + i, "ascii", m.g))
                  ELSE k.out,
         hits |-> Append(k.hits, [off |-> base + i, kind |-> "ascii",
                                   n |-> m.consumed, g |-> m.g]),
         add_failed |-> (k.add_failed \/ r.ok = 0)]

IsCandidate(c) == c = ChLBrace \/ IsHexByte(c)

\* a mutant of the ASCII loop body: after a match the index advances by 1
ascii_step_no_skip(acc, path, o, b, avail, base, i, heapOk) ==
    IF i < acc.i THEN acc
    ELSE IF ~IsCandidate(At(b, 0, i)) THEN [acc EXCEPT !.i = i + 1]
    ELSE LET m == match_guid_ascii_at(b, i, avail - i)
         IN  IF m.ok = 1
             THEN [k |-> ascii_hit(acc.k, path, o, base, i, m, heapOk),
                   i |-> i + 1]
             ELSE [acc EXCEPT !.i = i + 1]

\* one iteration of the ASCII loop for buffer index i; acc.i is the value of
\* the loop variable (an index below it was skipped by i += consumed - 1)
ascii_step(acc, path, o, b, avail, base, i, heapOk) ==
    IF i < acc.i THEN acc
    ELSE IF ~IsCandidate(At(b, 0, i)) THEN [acc EXCEPT !.i = i + 1]
    ELSE LET m == match_guid_ascii_at(b, i, avail - i)
         IN  IF m.ok = 1
             THEN [k |-> ascii_hit(acc.k, path, o, base, i, m, heapOk),
                   i |-> i + (IF m.consumed # 0 THEN m.consumed - 1 ELSE 0) + 1]
             ELSE [acc EXCEPT !.i = i + 1]

RECURSIVE ascii_loop(_, _, _, _, _, _, _, _, _)
\* for (i = 0; i + 36 <= avail; i++), over the indexes lo .. hi-1 in order
ascii_loop(acc, path, o, b, avail, base, lo, hi, heapOk) ==
    IF hi <= lo THEN acc
    ELSE IF hi = lo + 1 THEN ascii_step(acc, path, o, b, avail, base, lo, heapOk)
    ELSE LET mid == (lo + hi) \div 2
             a1  == ascii_loop(acc, path, o, b, avail, base, lo, mid, heapOk)
         IN  IF a1.i >= 0
             THEN ascii_loop(a1, path, o, b, avail, base, mid, hi, heapOk)
             ELSE a1

ascii_scan(k, path, o, b, avail, base, heapOk) ==
    IF avail < 36 THEN k
    ELSE ascii_loop([k |-> k, i |-> 0], path, o, b, avail, base,
                    0, avail - 36 + 1, heapOk).k

\* one iteration of the binary loop for buffer index i
bin_step(k, path, o, b, base, i, heapOk) ==
    LET w  == [j \in 1..16 |-> At(b, i, j - 1)]
        ok == IF o.binary_loose = 1 THEN looks_like_guid_memlayout_loose(w)
              ELSE looks_like_guid_memlayout_rfc4122(w)
    IN  IF ~ok THEN k
        ELSE LET r    == guidset_add(k.set, w, heapOk)
                 kind == IF o.binary_loose = 1 THEN "bin-loose" ELSE "bin"
             IN  [set  |-> r.s,
                  st   |-> [k.st EXCEPT !.bin_hits = @ + 1],
                  out  |-> IF o.locate = 1
                           THEN Append(k.out, locate_hit(path, base + i, kind, w))
                           ELSE k.out,
                  hits |-> Append(k.hits, [off |-> base + i, kind |-> kind,
                                            n |-> 16, g |-> w]),
                  add_failed |-> (k.add_failed \/ r.ok = 0)]

RECURSIVE bin_loop(_, _, _, _, _, _, _, _)
\* for (i = 0; i + 16 <= avail; i++), over the indexes lo .. hi-1 in order
bin_loop(k, path, o, b, base, lo, hi, heapOk) ==
    IF hi <= lo THEN k
    ELSE IF hi = lo + 1 THEN bin_step(k, path, o, b, base, lo, heapOk)
    ELSE LET mid == (lo + hi) \div 2
             k1  == bin_loop(k, path, o, b, base, lo, mid, heapOk)
         IN  IF k1.add_failed \in BOOLEAN
             THEN bin_loop(k1, path, o, b, base, mid, hi, heapOk)
             ELSE k1

bin_scan(k, path, o, b, avail, base, heapOk) ==
    IF o.binary_scan = 0 \/ avail < 16 THEN k
    ELSE bin_loop(k, path, o, b, base, 0, avail - 16 + 1, heapOk)

\* a mutant of the carry: nothing is kept for the next read
carry_nothing(b, avail, base) ==
    [buf |-> <<>>, keep |-> 0, base_off |-> base + avail]

\* a mutant of the carry: base_off advances by all of avail, the kept bytes
\* included
carry_base_past_overlap(b, avail, base) ==
    IF avail >= OVERLAP
    THEN [buf      |-> SubSeq(b, avail - OVERLAP + 1, avail),
          keep     |-> OVERLAP,
          base_off |-> base + avail]
    ELSE [buf |-> SubSeq(b, 1, avail), keep |-> avail, base_off |-> base]

\* a mutant of the carry: the whole buffer is kept
carry_keeps_all(b, avail, base) ==
    [buf |-> SubSeq(b, 1, avail), keep |-> avail, base_off |-> base]

\* "prepare overlap for next read"
carry(b, avail, base) ==
    IF avail >= OVERLAP
    THEN [buf      |-> SubSeq(b, avail - OVERLAP + 1, avail),
          keep     |-> OVERLAP,
          base_off |-> base + (avail - OVERLAP)]
    ELSE [buf |-> SubSeq(b, 1, avail), keep |-> avail, base_off |-> base]

\* one iteration of the for(;;) of scan_stream_for_guids in which ReadFile
\* stored got > 0 bytes (new) behind the keep carried bytes (old)
scan_chunk(k, path, o, old, new, base, heapOk) ==
    LET b     == old \o new
        avail == Len(old) + Len(new)
        k1    == ascii_scan(k, path, o, b, avail, base, heapOk)
        k2    == bin_scan(k1, path, o, b, avail, base, heapOk)
    IN  [k |-> k2, c |-> carry(b, avail, base)]

---------------------------------------------------------------------------
(* scanning: scan_stream_for_guids as one call, scan_path_recursive        *)

RECURSIVE read_loop(_, _, _, _, _, _)
\* the for(;;) of scan_stream_for_guids on a file whose reads return all
\* that is left, up to CHUNK bytes, until ReadFile stores 0 bytes; r holds
\* the sink (k) and the carried bytes (c), pos is the file position
read_loop(r, path, o, bytes, pos, heapOk) ==
    IF pos >= Len(bytes) THEN r.k
    ELSE read_loop(scan_chunk(r.k, path, o, r.c.buf,
                              SubSeq(bytes, pos + 1,
                                     pos + Min(CHUNK, Len(bytes) - pos)),
                              r.c.base_off, heapOk),
                   path, o, bytes, pos + Min(CHUNK, Len(bytes) - pos), heapOk)

\* before the first read: nothing kept, base_off 0
NoCarry == [buf |-> <<>>, keep |-> 0, base_off |-> 0]

\* the statistics update before the buffer is allocated
open_stats(t, size) ==
    [t EXCEPT !.files_scanned = @ + 1,
              !.bytes_scanned = IF size > 0 THEN @ + size ELSE @]

\* a mutant of scan_stream_for_guids: the file is counted before it is
\* opened
scan_stream_counts_first(k, path, o, bytes, how, heapOk) ==
    IF how # "ok"
    THEN [k |-> [k EXCEPT !.st = open_stats(k.st, Len(bytes))], ret |-> 0]
    ELSE [k   |-> read_loop([k |-> [k EXCEPT
                                       !.st = open_stats(k.st, Len(bytes))],
                             c |-> NoCarry],
                            path, o, bytes, 0, heapOk),
          ret |-> 1]

\* scan_stream_for_guids(path, set, st, opt): [k, ret]
scan_stream_for_guids(k, path, o, bytes, how, heapOk) ==
    IF how \in {"CreateFileW", "GetFileSizeEx"} THEN [k |-> k, ret |-> 0]
    ELSE IF how = "HeapAlloc"
    THEN [k |-> [k EXCEPT !.st = open_stats(k.st, Len(bytes))], ret |-> 0]
    ELSE [k   |-> read_loop([k |-> [k EXCEPT
                                       !.st = open_stats(k.st, Len(bytes))],
                             c |-> NoCarry],
                            path, o, bytes, 0, heapOk),
          ret |-> 1]

is_dot_or_dotdot(name) == name = "." \/ name = ".."

\* a mutant of the loop body: reparse points are not skipped
entry_action_follows_reparse(fd) ==
    IF is_dot_or_dotdot(fd.name) THEN "continue"
    ELSE IF fd.dir THEN "recurse"
    ELSE "scan"

\* what the body of the do-while does with the entry fd
entry_action(fd) ==
    IF is_dot_or_dotdot(fd.name) THEN "continue"
    ELSE IF fd.reparse THEN "continue"
    ELSE IF fd.dir THEN "recurse"
    ELSE "scan"

\* join_path(child, path, fd.cFileName)
join_path(path, name) == Append(path, name)

---------------------------------------------------------------------------
(* Parts of the state a specification does not use                         *)

NoFile   == [bytes |-> <<>>, placed |-> {}]
ZeroOpt  == [with_registry |-> 0, binary_scan |-> 0, binary_loose |-> 0,
             locate |-> 0, one_line |-> 0]
ZeroStat == [files_scanned |-> 0, bytes_scanned |-> 0, ascii_hits |-> 0,
             bin_hits |-> 0]

ReaderIdle ==
    /\ file = NoFile /\ fpos = 0 /\ keep = 0 /\ base_off = 0 /\ buf = <<>>
    /\ nshort = 0 /\ reads = <<>>
WalkIdle ==
    /\ fs = <<>> /\ stack = <<>> /\ visited = <<>> /\ scanned = <<>>
    /\ errs = <<>>
SinkIdle ==
    /\ st = ZeroStat /\ opt = ZeroOpt /\ out = <<>> /\ hits = <<>>
SetHistoryIdle ==
    /\ add_failed = FALSE /\ added = {} /\ dups = 0
ZeroOPTS == [verbose |-> 0, reg_view |-> 0, both_views |-> 0]
NoFrame == [fn |-> "none", viewFlag |-> 0, saved |-> 0, entry |-> 0]
RegIdle ==
    /\ g_opt = ZeroOPTS /\ frame = NoFrame /\ calls = <<>> /\ view0 = 0

readerVars == <<file, fpos, keep, base_off, buf, nshort, reads>>
walkVars   == <<fs, stack, visited, scanned, errs>>
sinkVars   == <<st, opt, out, hits>>
regVars    == <<g_opt, frame, calls, view0>>

---------------------------------------------------------------------------
(* SpecSet: the GUIDSET under sequences of guidset_add calls               *)

\* the identifiers offered to the set: MaxIds per family
MaxIds  == 181
\* how many repeated (duplicate) inserts a run makes
MaxDups == 2
Families == {0, 1}

\* family 0 counts in its first bytes; its hashes fall on distinct slots.
\* family 1 varies its bytes by squares of k: its hashes collide, so that
\* the probes run through clusters and around the end of the table
Ident(f, k) ==
    IF f = 0
    THEN << k % 256, k \div 256, (k * 5) % 256, f,
            134, 139, 17, 208, 180, 45, 0, 192, 79, 201, 100,
            (k * 37 + f) % 256 >>
    ELSE << (k * k) % 256, (k * 91 + 7) % 256, (k * k * 3) % 256, f,
            134, 139, 17, 208, (k \div 7) % 256, 45, 0, 192, 79, 201, 100,
            (k * k * 5 + 1) % 256 >>

\* guidset_init is called with 256 by cmd_scan; 1 and 100 exercise its
\* clamp to 64 and its rounding up to a power of two
InitCaps == {1, 100, 256}

SetInit ==
    /\ \E n \in InitCaps : set = guidset_init(n, TRUE).s
    /\ pc = "set"
    /\ ret = 1
    /\ win = ZeroGuid
    /\ SetHistoryIdle /\ ReaderIdle /\ WalkIdle /\ SinkIdle
    /\ RegIdle

\* the identifiers a run may pass next: the next fresh one of the family in
\* use, or the first or the latest one already accepted
NextIdents ==
    LET n == Cardinality(added)
        fams == IF added = {} THEN Families ELSE {g[4] : g \in added}
    IN  {Ident(f, n) : f \in {x \in fams : n < MaxIds}}
        \cup {Ident(f, k) : f \in {x \in fams : n > 0 /\ dups < MaxDups},
                            k \in {0, n - 1} \cap (0..(n - 1))}

\* one call guidset_add(&set, &g)
SetAdd(g, heapOk) ==
    /\ pc = "set"
    /\ g \in NextIdents
    /\ LET r == guidset_add(set, g, heapOk)
       IN  /\ set' = r.s
           /\ ret' = r.ok
           /\ add_failed' = (add_failed \/ r.ok = 0)
           /\ added' = IF r.ok = 1 THEN added \cup {g} ELSE added
           /\ dups' = IF r.ok = 1 /\ g \in added THEN dups + 1 ELSE dups
    /\ UNCHANGED <<pc, win, readerVars, walkVars, sinkVars, regVars>>

SetNext == \E g \in NextIdents, heapOk \in BOOLEAN : SetAdd(g, heapOk)

SpecSet == SetInit /\ [][SetNext]_vars

---------------------------------------------------------------------------
(* SpecScan: cmd_scan on one regular file, read chunk by chunk             *)

\* how many reads of a run may return fewer bytes than are available
MaxShort == 1
\* the sizes such a short read returns (a pipe, or a file still growing)
ShortReads == {1, 26}

HexCode(n, lower) ==
    IF n < 10 THEN ChZero + n
    ELSE (IF lower THEN ChLoA ELSE ChUpA) + (n - 10)

\* the 32 hex digits of two identifiers
NibsA == <<6,15,9,6,1,9,15,15, 8,11,8,6, 13,0,1,1, 11,4,2,13,
           0,0,12,0,4,15,12,9,6,4,15,15>>
NibsB == <<0,14,2,10,7,11,1,1, 12,3,13,4, 4,5,15,6, 10,7,11,8,
           9,9,10,10,11,11,12,12,13,13,14,14>>

\* the canonical 8-4-4-4-12 text of the digits, optionally braced
Text36(nibs, lower) ==
    [i \in 1..36 |->
        LET j == i - 1
        IN  IF DashAt(j) THEN ChDash
            ELSE HexCode(nibs[IF j < 8 THEN j + 1
                              ELSE IF j < 13 THEN j
                              ELSE IF j < 18 THEN j - 1
                              ELSE IF j < 23 THEN j - 2
                              ELSE j - 3], lower)]

IdText(id) ==
    IF id.braced THEN <<ChLBrace>> \o Text36(id.nibs, id.lower) \o <<ChRBrace>>
    ELSE Text36(id.nibs, id.lower)

\* the memory image of the identifier the digits denote
ImageOf(nibs) ==
    LET t(j) == nibs[2 * j + 1] * 16 + nibs[2 * j + 2]
    IN  << t(3), t(2), t(1), t(0), t(5), t(4), t(7), t(6),
           t(8), t(9), t(10), t(11), t(12), t(13), t(14), t(15) >>

Fill(c, n) == [i \in 1..n |-> c]

IdUpper       == [nibs |-> NibsA, lower |-> FALSE, braced |-> FALSE]
IdLowerBraced == [nibs |-> NibsB, lower |-> TRUE,  braced |-> TRUE]
IdStyles == {IdUpper, IdLowerBraced}

Placed(off, id) ==
    [off |-> off, n |-> Len(IdText(id)), g |-> ImageOf(id.nibs),
     braced |-> id.braced]

\* one identifier between filler bytes
OneIdFile(pre, c, id, post) ==
    [bytes  |-> Fill(c, pre) \o IdText(id) \o Fill(c, post),
     placed |-> {Placed(pre, id)}]

\* two identifiers, gap filler bytes apart
TwoIdFile(pre, c, id1, gap, id2, post) ==
    [bytes  |-> Fill(c, pre) \o IdText(id1) \o Fill(c, gap) \o IdText(id2)
                \o Fill(c, post),
     placed |-> {Placed(pre, id1), Placed(pre + Len(IdText(id1)) + gap, id2)}]

\* filler: 'x' (no candidate byte) and '1' (a hex digit, a candidate)
FillBytes == {120, 49}

\* where the identifier starts: at the file start, inside the last OVERLAP
\* bytes of the first full chunk (CHUNK-40), at CHUNK-10, and with its start
\* around the chunk end (CHUNK-5 .. CHUNK+5)
PreOffsets ==
    {0, CHUNK - 40, CHUNK - 10} \cup ((CHUNK - 5)..(CHUNK + 5))

PostLens == {0, 30}

OneIdFiles ==
    {OneIdFile(pre, c, id, post) :
        pre \in PreOffsets, c \in FillBytes, id \in IdStyles, post \in PostLens}

TwoIdFiles ==
    {TwoIdFile(CHUNK - 60, c, id1, gap, id2, 30) :
        c \in FillBytes, id1 \in IdStyles, gap \in {0, 3}, id2 \in IdStyles}

\* a file of more than three chunks of hex digits, a braced identifier in
\* the third: its second read fills the buffer (OVERLAP + CHUNK bytes)
BigFile == OneIdFile(2 * CHUNK + 10, 49, IdLowerBraced, CHUNK)

\* a file of raw bytes: most 16-byte windows carry the variant bits 10 in
\* byte 8, some also a version nibble 1..5 in byte 7
BinByte(i) ==
    IF i % 5 = 2 THEN 16 + ((i * 7) % 80)
    ELSE 128 + ((i * i + (i \div 3)) % 64)

BinFile(n) == [bytes |-> [i \in 1..n |-> BinByte(i)], placed |-> {}]

BinLens == {60, 100}

RECURSIVE add_all(_, _, _)
\* guidset_add for the identifiers Ident(0, lo) .. Ident(0, hi-1), in order
add_all(s, lo, hi) ==
    IF hi <= lo THEN s
    ELSE IF hi = lo + 1 THEN guidset_add(s, Ident(0, lo), TRUE).s
    ELSE LET mid == (lo + hi) \div 2
             s1  == add_all(s, lo, mid)
         IN  IF s1.len >= 0 THEN add_all(s1, mid, hi) ELSE s1

\* The set when a file is opened: empty (the first file of cmd_scan), or
\* holding the Prefill identifiers that files scanned earlier in the walk
\* put there (one below the growth threshold of the 256-slot table).
Prefill == (256 * 7 - 1) \div 10
EmptySet  == guidset_init(256, TRUE).s
FilledSet == add_all(EmptySet, 0, Prefill)

\* the statistics after such earlier files: one file of Prefill identifiers
FilledStat == [files_scanned |-> 1, bytes_scanned |-> UnbracedLen * Prefill,
               ascii_hits |-> Prefill, bin_hits |-> 0]

ScanInit ==
    /\ \/ /\ file \in OneIdFiles \cup {BigFile}
          /\ opt = [ZeroOpt EXCEPT !.locate = 1]
          /\ set = EmptySet /\ st = ZeroStat
       \/ /\ file \in TwoIdFiles
          /\ \E l \in {0, 1} : opt = [ZeroOpt EXCEPT !.locate = l]
          /\ \/ set = EmptySet /\ st = ZeroStat
             \/ set = FilledSet /\ st = FilledStat
       \/ /\ \E n \in BinLens : file = BinFile(n)
          /\ \E l \in {0, 1}, loc \in {0, 1} :
                opt = [ZeroOpt EXCEPT !.binary_scan = 1, !.binary_loose = l,
                                      !.locate = loc]
          /\ set = EmptySet /\ st = ZeroStat
    /\ out = <<>> /\ hits = <<>>
    /\ fpos = 0 /\ keep = 0 /\ base_off = 0 /\ buf = <<>> /\ nshort = 0
    /\ reads = <<>>
    /\ pc = "open"
    /\ ret = 1
    /\ win = ZeroGuid
    /\ SetHistoryIdle /\ WalkIdle
    /\ RegIdle

ThePath == <<"f">>

OpenOutcomes == {"ok", "CreateFileW", "GetFileSizeEx", "HeapAlloc"}

\* the head of scan_stream_for_guids, up to the for(;;)
OpenFile(how) ==
    /\ pc = "open"
    /\ how \in OpenOutcomes
    /\ st' = IF how \in {"ok", "HeapAlloc"}
             THEN open_stats(st, Len(file.bytes))
             ELSE st
    /\ pc' = IF how = "ok" THEN "read" ELSE "done"
    /\ ret' = IF how = "ok" THEN ret ELSE 0
    /\ keep' = 0 /\ base_off' = 0 /\ buf' = <<>> /\ fpos' = 0
    /\ UNCHANGED <<set, opt, out, hits, file, nshort, reads, add_failed,
                   added, dups, win, walkVars, regVars>>

\* what ReadFile may store: all that is left up to CHUNK bytes, or less
ReadSizes ==
    LET rem  == Len(file.bytes) - fpos
        full == Min(CHUNK, rem)
    IN  {full} \cup {g \in ShortReads : g < full /\ nshort < MaxShort}

\* one iteration of the for(;;): ReadFile succeeds with got bytes
ReadChunk(got, heapOk) ==
    /\ pc = "read"
    /\ got \in ReadSizes
    /\ IF got = 0
       THEN /\ pc' = "done" /\ ret' = 1
            /\ reads' = Append(reads, 0)
            /\ UNCHANGED <<set, st, out, hits, add_failed, fpos, keep,
                           base_off, buf, nshort>>
       ELSE \E r \in {scan_chunk(Sink(set, st, out, hits, add_failed),
                                  ThePath, opt, buf,
                                  SubSeq(file.bytes, fpos + 1, fpos + got),
                                  base_off, heapOk)} :
                /\ set' = r.k.set /\ st' = r.k.st /\ out' = r.k.out
                /\ hits' = r.k.hits /\ add_failed' = r.k.add_failed
                /\ buf' = r.c.buf /\ keep' = r.c.keep
                /\ base_off' = r.c.base_off
                /\ fpos' = fpos + got
                /\ reads' = Append(reads, got)
                /\ nshort' = IF got < Min(CHUNK, Len(file.bytes) - fpos)
                             THEN nshort + 1 ELSE nshort
                /\ UNCHANGED <<pc, ret>>
    /\ UNCHANGED <<opt, file, added, dups, win, walkVars, regVars>>

\* ReadFile fails: the loop is left by break and the function returns 1
ReadFail ==
    /\ pc = "read"
    /\ pc' = "done" /\ ret' = 1
    /\ UNCHANGED <<set, st, opt, out, hits, file, fpos, keep, base_off, buf,
                   nshort, reads, add_failed, added, dups, win, walkVars,
                   regVars>>

ScanNext ==
    \/ \E how \in OpenOutcomes : OpenFile(how)
    \/ \E got \in 0..CHUNK, heapOk \in BOOLEAN : ReadChunk(got, heapOk)
    \/ ReadFail

SpecScan == ScanInit /\ [][ScanNext]_vars

---------------------------------------------------------------------------
(* Claims about the chunked scan of one file                               *)

\* the ASCII hits whose reported span overlaps the span of a placed identifier
AsciiHitsOn(h, pl) ==
    {j \in DOMAIN h : /\ h[j].kind = "ascii"
                      /\ h[j].off < pl.off + pl.n
                      /\ h[j].off + h[j].n > pl.off}

\* the placed identifier lies wholly in the bytes carried over to the next read
InCarry(pl) ==
    /\ pc = "read" /\ keep > 0
    /\ pl.off >= base_off /\ pl.off + pl.n <= base_off + keep

\* C1: an identifier whose whole span lies in one buffer and whose start lies
\* in the trailing 64 bytes carried over has been detected once, and the
\* scan of the carried bytes with the next non-empty read does not detect it
\* again.
C1_CarriedNotRedetected ==
    [][\A pl \in file.placed :
          InCarry(pl) =>
              /\ Cardinality(AsciiHitsOn(hits, pl)) >= 1
              /\ Cardinality(AsciiHitsOn(hits', pl))
                    = Cardinality(AsciiHitsOn(hits, pl))]_vars

\* the file was read to its end without an error
ReadToEnd ==
    /\ pc = "done" /\ fpos = Len(file.bytes)
    /\ Len(reads) > 0 /\ reads[Len(reads)] = 0

\* an ASCII hit reports the placed identifier: its value, at its start (or,
\* for a braced one taken without its braces, one byte later)
Detected(pl) ==
    \E j \in DOMAIN hits :
        /\ hits[j].kind = "ascii" /\ hits[j].g = pl.g
        /\ \/ hits[j].off = pl.off
           \/ pl.braced /\ hits[j].off = pl.off + 1

\* C2: wherever the canonical text of an identifier is placed, also astride
\* the end of a read, the scan detects it at least once and its value is in
\* the set (unless guidset_add itself failed for lack of memory).
C2_BoundaryInvariance ==
    \A pl \in file.placed :
        (pc \in {"read", "done"} /\ pl.off + pl.n <= fpos) =>
            /\ Detected(pl)
            /\ (~add_failed => Retrievable(set, pl.g))

\* C2 witness: a braced identifier astride the end of the first full chunk,
\* found after the file was read to its end
C2_Witness ==
    /\ ReadToEnd /\ reads[1] = CHUNK
    /\ \E pl \in file.placed :
          /\ pl.braced /\ pl.off < CHUNK /\ pl.off >= CHUNK - 5
          /\ Detected(pl) /\ Retrievable(set, pl.g)

\* C3: a 36-character unbraced identifier that starts 10 bytes before the end
\* of the first (full) chunk is counted exactly once for the file, at its
\* absolute start offset.
C3_SpanningOnce ==
    (ReadToEnd /\ reads[1] = CHUNK) =>
        \A pl \in file.placed :
            (pl.off = CHUNK - 10 /\ pl.n = UnbracedLen) =>
                Cardinality({j \in DOMAIN hits :
                                /\ hits[j].kind = "ascii"
                                /\ hits[j].off = pl.off
                                /\ hits[j].g = pl.g}) = 1

\* C10: no two ASCII matches reported for a file have overlapping byte ranges.
C10_NoOverlappingMatches ==
    \A i \in DOMAIN hits, j \in DOMAIN hits :
        (i < j /\ hits[i].kind = "ascii" /\ hits[j].kind = "ascii") =>
            \/ hits[i].off + hits[i].n <= hits[j].off
            \/ hits[j].off + hits[j].n <= hits[i].off

\* C6: once guidset_add has failed to grow the set, the scan is over: no
\* further chunk is read, no further hit is counted, and the scan reports
\* the failure.
C6_FailedGrowthAborts ==
    [][/\ add_failed => (fpos' = fpos /\ st' = st /\ hits' = hits)
       /\ (add_failed' /\ pc' = "done") => ret' = 0]_vars

\* the 16-byte window at file offset off passes the heuristic the options
\* select
Qualifies(off) ==
    LET w == [j \in 1..16 |-> file.bytes[off + j]]
    IN  IF opt.binary_loose = 1 THEN looks_like_guid_memlayout_loose(w)
        ELSE looks_like_guid_memlayout_rfc4122(w)

BinHitsAt(off) ==
    {j \in DOMAIN hits : hits[j].kind \in {"bin", "bin-loose"}
                         /\ hits[j].off = off}

\* C11: with the binary scan on, after the file was read to its end bin_hits
\* is the number of file offsets whose 16-byte window qualifies, and no
\* offset was reported more than once.
C11_BinHitsPerWindow ==
    (ReadToEnd /\ opt.binary_scan = 1) =>
        /\ st.bin_hits =
              Cardinality({off \in 0..(Len(file.bytes) - 16) : Qualifies(off)})
        /\ \A off \in 0..(Len(file.bytes) - 16) :
              Cardinality(BinHitsAt(off)) <= 1

\* C18: scan_stream_for_guids returns the failure value 0 when CreateFileW
\* fails and when a ReadFile call fails, in whichever iteration of the chunk
\* loop.
C18_FailureReported ==
    [][(OpenFile("CreateFileW") \/ ReadFail) => ret' = 0]_vars

\* the half of C18 the code keeps: a failed CreateFileW returns 0
C18_OpenFailureReported ==
    [][OpenFile("CreateFileW") => ret' = 0]_vars

\* the hits counted by the scan of this file: the counters less what the
\* earlier files left in them
CountedHits ==
    st.ascii_hits + st.bin_hits
        - (IF set.len >= Prefill THEN FilledStat.ascii_hits ELSE 0)

\* the record locate_hit prints for the j-th counted hit
LocateRecord(j) == locate_hit(ThePath, hits[j].off, hits[j].kind, hits[j].g)

\* the iteration of the chunk loop done in this step, run again with the
\* other value of opt->locate
OtherLocate(heapOk) ==
    scan_chunk(Sink(set, st, out, hits, add_failed), ThePath,
               [opt EXCEPT !.locate = 1 - @], buf,
               SubSeq(file.bytes, fpos + 1, fpos'), base_off, heapOk)

\* C21: with --locate one record is printed for each counted hit, in the
\* order of the hits and repeated identifiers included; without it nothing is
\* printed; and an iteration of the chunk loop leaves the same counters, the
\* same set and the same carried bytes whichever value opt->locate has.
C21_LocatePerHit ==
    /\ [](opt.locate = 1 =>
             /\ Len(out) = CountedHits
             /\ out = [j \in 1..Len(hits) |-> LocateRecord(j)])
    /\ [](opt.locate = 0 => out = <<>>)
    /\ [][(pc = "read" /\ fpos' > fpos) =>
             \E h \in BOOLEAN :
                \E r \in {OtherLocate(h)} :
                   /\ r.k.set = set' /\ r.k.st = st'
                   /\ r.k.add_failed = add_failed'
                   /\ r.c.buf = buf' /\ r.c.keep = keep'
                   /\ r.c.base_off = base_off']_vars

\* a scan with --locate is over: the same identifier was counted twice and
\* printed twice, the set holds it once
C21_Witness ==
    /\ pc = "done" /\ opt.locate = 1 /\ file \in TwoIdFiles
    /\ set.len = 1 /\ st.ascii_hits = 2
    /\ Len(out) = 2 /\ out[1].g = out[2].g /\ out[1].off # out[2].off

\* bytes_scanned as the earlier files left it
BytesBefore == IF set.len >= Prefill THEN FilledStat.bytes_scanned ELSE 0

\* C24: when ReadFile fails, the hits of the chunks read before stay counted
\* and stored, and bytes_scanned has grown by the bytes read from the file
\* before the failure.
C24_PartialReadCounts ==
    [][ReadFail =>
          /\ st'.ascii_hits = st.ascii_hits /\ st'.bin_hits = st.bin_hits
          /\ set' = set
          /\ st'.bytes_scanned = BytesBefore + fpos]_vars

\* the part of C24 the code keeps: a failed ReadFile takes nothing back
C24_HitsKept ==
    [][ReadFail =>
          /\ st'.ascii_hits = st.ascii_hits /\ st'.bin_hits = st.bin_hits
          /\ set' = set /\ hits' = hits]_vars

\* the bytes of the file at absolute offsets off .. off + n - 1
FileBytes(off, n) == SubSeq(file.bytes, off + 1, off + n)

\* the j-th hit is reported at the absolute offset of the first byte of its
\* match: the file holds there the text, or the 16 bytes, of its identifier
HitAtItsOffset(j) ==
    /\ hits[j].off >= 0 /\ hits[j].off + hits[j].n <= Len(file.bytes)
    /\ IF hits[j].kind = "ascii"
       THEN \E m \in {match_guid_ascii_at(file.bytes, hits[j].off,
                                          hits[j].n)} :
               m.ok = 1 /\ m.consumed = hits[j].n /\ m.g = hits[j].g
       ELSE FileBytes(hits[j].off, 16) = hits[j].g

\* C27: between the iterations of the chunk loop the carried bytes are the
\* file bytes from base_off up to the read position, so buffer byte i of the
\* next iteration is file byte base_off + i; and every hit is reported at the
\* absolute file offset of the first byte of its match.
C27_OffsetTranslation ==
    /\ pc = "read" =>
          /\ keep = Len(buf) /\ base_off + keep = fpos
          /\ buf = FileBytes(base_off, keep)
    /\ pc \in {"read", "done"} => \A j \in DOMAIN hits : HitAtItsOffset(j)

\* after a short read and a move of base_off: one hit whose match starts in
\* the carried bytes of a later iteration, one that starts in newly read bytes
C27_Witness ==
    /\ pc = "done" /\ nshort = 1 /\ base_off > 0 /\ Len(reads) >= 3
    /\ \E j \in DOMAIN hits :
          hits[j].off < reads[1] /\ hits[j].off + hits[j].n > reads[1]
    /\ \E j \in DOMAIN hits : hits[j].off >= reads[1] + reads[2]

\* how many bytes from p = base + off parse_guid_ascii36 reads: its first loop
\* stops at the first byte that does not fit
parse_reads(base, off) ==
    LET bad == {i \in 0..35 :
                  ~(IF DashAt(i) THEN At(base, off, i) = ChDash
                    ELSE IsHexByte(At(base, off, i)))}
    IN  IF bad = {} THEN 36
        ELSE 1 + CHOOSE i \in bad : \A j \in bad : i <= j

\* how many bytes from p = base + off match_guid_ascii_at reads: p[37] is
\* read when remaining >= 38 and p[0] is '{'
match_reads(base, off, remaining) ==
    IF remaining >= BracedLen /\ At(base, off, 0) = ChLBrace
    THEN BracedLen
    ELSE IF remaining >= UnbracedLen THEN parse_reads(base, off)
    ELSE 0

\* how many bytes from buf + i the ASCII loop reads at index i
ascii_reads(b, avail, i) ==
    IF ~IsCandidate(At(b, 0, i)) THEN 1
    ELSE LET n == match_reads(b, i, avail - i)
         IN  IF n > 1 THEN n ELSE 1

\* the buffer of the iteration done in this step: the carried bytes, then
\* the bytes ReadFile stored
IterBuf == buf \o SubSeq(file.bytes, fpos + 1, fpos')

\* C28: keep <= 64 before every read; keep + got <= CHUNK + 64 after it; in
\* the iteration the ASCII loop, at every index it visits, and the binary
\* loop, at every window it starts, read no byte at an index >= avail.
C28_BufferBounds ==
    /\ [](pc = "read" => (keep <= OVERLAP /\ keep = Len(buf)))
    /\ [][(pc = "read" /\ fpos' > fpos) =>
             \E avail \in {keep + (fpos' - fpos)} :
                /\ avail <= CHUNK + OVERLAP
                /\ \A i \in 0..(avail - UnbracedLen) :
                      i + ascii_reads(IterBuf, avail, i) <= avail
                /\ opt.binary_scan = 1 =>
                      \A i \in 0..(avail - 16) : i + 16 <= avail]_vars

\* an iteration has run on a full buffer: 64 carried bytes and a whole chunk
C28_Witness ==
    /\ pc = "read" /\ keep = OVERLAP /\ Len(reads) >= 2
    /\ reads[Len(reads)] = CHUNK /\ base_off >= CHUNK
    /\ file = BigFile /\ st.ascii_hits >= 1

---------------------------------------------------------------------------
(* SpecHeur: the two binary heuristics applied to one 16-byte window       *)

\* byte 7 takes every version nibble, byte 8 values around the variant bits
Byte7Values == {16 * v + 7 : v \in 0..15}
Byte8Values == {0, 63, 64, 127, 128, 160, 191, 192, 255}

Window(b7, b8) == [i \in 1..16 |-> IF i = 8 THEN b7 ELSE IF i = 9 THEN b8 ELSE 17]

HeurInit ==
    /\ \E b7 \in Byte7Values, b8 \in Byte8Values : win = Window(b7, b8)
    /\ pc = "window"
    /\ ret = 0
    /\ set = guidset_init(256, TRUE).s
    /\ SetHistoryIdle /\ ReaderIdle /\ WalkIdle /\ SinkIdle
    /\ RegIdle

\* both heuristics evaluated on the window, as the binary scan does for
\* either setting of opt->binary_loose
Classify ==
    /\ pc = "window"
    /\ pc' = "classified"
    /\ ret' = [strict |-> looks_like_guid_memlayout_rfc4122(win),
               loose  |-> looks_like_guid_memlayout_loose(win)]
    /\ UNCHANGED <<set, win, add_failed, added, dups,
                   readerVars, walkVars, sinkVars, regVars>>

HeurNext == Classify

SpecHeur == HeurInit /\ [][HeurNext]_vars

---------------------------------------------------------------------------
(* Claims about the GUIDSET                                                *)

\* C4: after any sequence of successful guidset_add calls, len equals the
\* number of distinct identifiers inserted (same identifier N times: 1;
\* M distinct: M; re-inserting stored identifiers changes nothing).
C4_DedupCount ==
    pc = "set" => set.len = Cardinality(added)

\* C4 witness: many distinct identifiers stored, duplicates re-inserted
C4_Witness ==
    /\ pc = "set" /\ Cardinality(added) >= 50 /\ dups = MaxDups
    /\ set.len = Cardinality(added)

\* C5: across rehash events every identifier inserted before is still stored
\* and reachable by probing from its hash index, and none is stored twice.
C5_GrowthSafe ==
    pc = "set" =>
        /\ \A g \in added : Retrievable(set, g)
        /\ Cardinality(Stored(set)) = Cardinality(Occupied(set))
        /\ Stored(set) = added

\* C5 witness: a table has doubled to 512 slots and holds 180 or more
\* identifiers, every one of them reachable by probing
C5_Witness ==
    /\ pc = "set" /\ set.cap = 512 /\ set.len >= 180
    /\ \A g \in added : Retrievable(set, g)

\* C9: every window the strict heuristic accepts, the loose one accepts.
C9_Superset ==
    pc = "classified" => (ret.strict => ret.loose)

\* C9 witness: a window both accept
C9_Witness ==
    pc = "classified" /\ ret.strict /\ ret.loose


\* C14: a guidset_add call that succeeds for an identifier already stored
\* leaves the set (slots, len, cap) as it was, and its result differs from
\* the result 1 of a fresh insert.
C14_DuplicateNoOp ==
    [][\A g \in added, h \in BOOLEAN :
          (SetAdd(g, h) /\ ret' # 0) => (set' = set /\ ret' # 1)]_vars

\* the identifiers the callback of guidset_foreach is called with
ForeachArgs(s) ==
    LET f == guidset_foreach(s) IN {f[i] : i \in DOMAIN f}

\* C15: no two occupied slots hold equal identifiers (the occupied slots
\* hold as many different identifiers as there are slots), len is the number
\* of occupied slots, and guidset_foreach makes len calls of its callback,
\* with pairwise different identifiers: one call for each stored one.
C15_SlotsDistinct ==
    pc = "set" =>
        /\ Cardinality(Stored(set)) = Cardinality(Occupied(set))
        /\ set.len = Cardinality(Occupied(set))
        /\ Cardinality(DOMAIN guidset_foreach(set)) = set.len
        /\ Cardinality(ForeachArgs(set)) = set.len
        /\ ForeachArgs(set) = added

\* a table that has grown and took duplicate inserts holds 100 or more
\* identifiers
C15_Witness ==
    pc = "set" /\ set.len >= 100 /\ set.cap >= 256 /\ dups > 0

\* cap is 2^k for some k
IsPow2(n) == \E k \in 0..16 : n = 2 ^ k

\* C16: the capacity is a power of two and at least 64, len <= cap, and no
\* operation makes the capacity smaller.
C16_CapacityShape ==
    [](pc = "set" => (IsPow2(set.cap) /\ set.cap >= MinCap
                      /\ set.len <= set.cap))
    /\ [][pc = "set" => set'.cap >= set.cap]_vars

\* the capacity has doubled from 64 to 128 and again to 256
C16_Witness ==
    pc = "set" /\ set.cap = 256 /\ set.len >= 90 /\ set.len <= 128

\* the test at the head of guidset_add
GrowthDue(s) == (s.len + 1) * 10 >= s.cap * 7

\* every identifier stored in s is found again by a probe of t
AllReinserted(s, t) == \A i \in Occupied(s) : Retrievable(t, s.items[i])

\* C22 (every step of SpecSet is one call of guidset_add): a call of
\* guidset_add that does not fail doubles the capacity, with
\* every stored identifier found again in the new table, exactly when
\* (len+1)*10 >= cap*7 held at its start, and leaves the capacity as it was
\* otherwise; a call that fails had the test true and leaves the capacity;
\* after a call that did not fail len*10 < cap*7.
C22_GrowthThreshold ==
    [][pc = "set" =>
          /\ ret' = 1 =>
                /\ GrowthDue(set) <=> set'.cap = 2 * set.cap
                /\ ~GrowthDue(set) <=> set'.cap = set.cap
                /\ set'.cap # set.cap => AllReinserted(set, set')
                /\ set'.len * 10 < set'.cap * 7
          /\ ret' = 0 => (GrowthDue(set) /\ set'.cap = set.cap)]_vars

\* the table has just been doubled from 64 to 128 slots by the 45th
\* identifier
C22_Witness ==
    pc = "set" /\ set.cap = 128 /\ set.len = 45 /\ ret = 1 /\ dups = 0

\* C23: a call of guidset_add whose growth cannot allocate the new table
\* returns 0 and leaves items, used, len and cap as they were, the
\* identifier offered not stored; and no call that returns 0 changes the set.
C23_GrowthFailsAtomically ==
    [][pc = "set" =>
          /\ GrowthDue(set) =>
                \A g \in NextIdents :
                   SetAdd(g, FALSE) =>
                      /\ ret' = 0 /\ set' = set
                      /\ g \notin added => ~Retrievable(set', g)
          /\ ret' = 0 => (set' = set /\ added' = added)]_vars

\* the growth from 64 to 128 slots has just failed: 44 identifiers, as before
C23_Witness ==
    /\ pc = "set" /\ ret = 0 /\ add_failed
    /\ set.cap = 64 /\ set.len = 44 /\ Cardinality(added) = 44

\* the top two bits of byte 8 of the window are 10
VariantIs10 == win[9] \div 64 = 2

\* the high nibble of byte 7 of the window
VersionNibble == win[8] \div 16

\* C25: the strict heuristic accepts a window exactly when the top two bits
\* of byte 8 are 10 and the high nibble of byte 7 is in 1..5; the loose one
\* exactly when the top two bits of byte 8 are 10.
C25_HeuristicsExact ==
    pc = "classified" =>
        /\ ret.strict <=> (VariantIs10 /\ VersionNibble \in 1..5)
        /\ ret.loose <=> VariantIs10

\* byte 8 = 0x80 and version nibble 0: loose accepts, strict rejects
C25_Witness ==
    /\ pc = "classified" /\ win[9] = 128 /\ VersionNibble = 0
    /\ ret.loose /\ ~ret.strict

RECURSIVE probe_len(_, _, _, _)
\* the slots the probe for g looks at in s from slot pos until it meets an
\* empty slot or an identifier equal to g; -1 if n slots do not suffice
probe_len(s, g, pos, n) ==
    IF n = 0 THEN -1
    ELSE IF s.used[pos + 1] = 0 \/ guid_equal(s.items[pos + 1], g) THEN 1
    ELSE LET r == probe_len(s, g, BitAnd(pos + 1, s.cap - 1), n - 1)
         IN  IF r < 0 THEN -1 ELSE r + 1

\* the probe of s for g, from the slot of its hash, within cap steps
ProbeEnds(s, g) ==
    probe_len(s, g, BitAnd(fnv1a64(g), s.cap - 1), s.cap) \in 1..s.cap

\* the table the probe of the next guidset_add call runs on: the set, or the
\* doubled table when the growth test holds and the growth succeeds
ProbedTable ==
    IF GrowthDue(set) THEN guidset_rehash(set, set.cap * 2, TRUE).s ELSE set

\* C29: when the probe of guidset_add starts, len*10 < cap*7 and the table
\* has an empty slot, and the probe ends at an empty slot or an equal
\* identifier within cap steps, whichever identifier is offered; the probes
\* of guidset_rehash run on a table with more slots than there are
\* identifiers to place, and each ends within the new capacity.
C29_ProbesTerminate ==
    pc = "set" =>
        /\ set.len * 10 < set.cap * 7
        /\ \E t \in {ProbedTable} :
              /\ t.len * 10 < t.cap * 7
              /\ \E i \in 1..t.cap : t.used[i] = 0
              /\ \A g \in NextIdents : ProbeEnds(t, g)
              /\ GrowthDue(set) =>
                    /\ set.len < t.cap /\ t.len = set.len
                    /\ \A i \in Occupied(set) : ProbeEnds(t, set.items[i])

\* the slot of the hash of the identifier stored in slot i (slots from 1)
HomeSlot(s, i) == BitAnd(fnv1a64(s.items[i]), s.cap - 1) + 1

\* a table in which one identifier lies three or more slots behind the slot
\* of its hash and one was placed after the probe went around the end
C29_Witness ==
    /\ pc = "set" /\ set.cap >= 128
    /\ \E i \in Occupied(set) : i >= HomeSlot(set, i) + 3
    /\ \E i \in Occupied(set) : i < HomeSlot(set, i)

---------------------------------------------------------------------------
(* SpecWalk: cmd_scan, the walk of scan_path_recursive over a directory    *)
(* tree, one call of scan_stream_for_guids per regular file                *)

\* the deepest nesting of scan_path_recursive calls a run may reach
MaxDepth == 4

\* A file system: objects by id, a directory with the entries FindFirstFileW
\* and FindNextFileW return in order (name, attributes, the object the name
\* leads to), a file with its bytes.
Entry(name, isDir, isReparse, obj) ==
    [name |-> name, dir |-> isDir, reparse |-> isReparse, obj |-> obj]
Dots(self, parent) ==
    << Entry(".", TRUE, FALSE, self), Entry("..", TRUE, FALSE, parent) >>
DirObj(entries) == [dir |-> TRUE, entries |-> entries, bytes |-> <<>>]
FileObj(bytes)  == [dir |-> FALSE, entries |-> <<>>, bytes |-> bytes]

FileA1 == FileObj(OneIdFile(3, 120, IdUpper, 2).bytes)
FileA2 == FileObj(OneIdFile(5, 49, IdUpper, 0).bytes)
FileB  == FileObj(OneIdFile(0, 120, IdLowerBraced, 4).bytes)
\* the identifier of FileA1 and FileA2 once more, in lower case and braced
FileA3 == FileObj(OneIdFile(0, 120, [IdUpper EXCEPT !.lower = TRUE,
                                                     !.braced = TRUE], 4).bytes)
\* the same identifier in a file longer than one chunk, inside the last
\* OVERLAP bytes of the first read
FileABig == FileObj(OneIdFile(CHUNK - 40, 120, IdUpper, 30).bytes)

\* three nested directories; junctions lead back to an ancestor at every
\* depth (loop, up, j) and a symbolic link names a file (ln.txt)
TreeLoops ==
    [root |-> "R",
     objs |-> [R  |-> DirObj(Dots("R", "R") \o
                        << Entry("a.txt", FALSE, FALSE, "F1"),
                           Entry("loop", TRUE, TRUE, "R"),
                           Entry("sub", TRUE, FALSE, "D1"),
                           Entry("ln.txt", FALSE, TRUE, "F1") >>),
               D1 |-> DirObj(Dots("D1", "R") \o
                        << Entry("up", TRUE, TRUE, "R"),
                           Entry("b.txt", FALSE, FALSE, "F2"),
                           Entry("deep", TRUE, FALSE, "D2") >>),
               D2 |-> DirObj(Dots("D2", "D1") \o
                        << Entry("c.txt", FALSE, FALSE, "F3"),
                           Entry("j", TRUE, TRUE, "D1") >>),
               F1 |-> FileA1, F2 |-> FileA2, F3 |-> FileB]]

\* a junction to a sibling directory (no cycle) and an empty directory
TreeAlias ==
    [root |-> "R",
     objs |-> [R  |-> DirObj(Dots("R", "R") \o
                        << Entry("alias", TRUE, TRUE, "D1"),
                           Entry("data", TRUE, FALSE, "D1"),
                           Entry("empty", TRUE, FALSE, "D2"),
                           Entry("z.txt", FALSE, FALSE, "F2") >>),
               D1 |-> DirObj(Dots("D1", "R") \o
                        << Entry("b.txt", FALSE, FALSE, "F1") >>),
               D2 |-> DirObj(Dots("D2", "R")),
               F1 |-> FileA1, F2 |-> FileB]]

\* three files, each with one occurrence of the same identifier
TreeSame ==
    [root |-> "R",
     objs |-> [R  |-> DirObj(Dots("R", "R") \o
                        << Entry("a.txt", FALSE, FALSE, "F1"),
                           Entry("sub", TRUE, FALSE, "D1") >>),
               D1 |-> DirObj(Dots("D1", "R") \o
                        << Entry("b.txt", FALSE, FALSE, "F2"),
                           Entry("c.txt", FALSE, FALSE, "F3") >>),
               F1 |-> FileA1, F2 |-> FileA2, F3 |-> FileA3]]

\* the same, one of the three files being longer than a chunk
TreeSameBig ==
    [root |-> "R",
     objs |-> [R  |-> DirObj(Dots("R", "R") \o
                        << Entry("a.txt", FALSE, FALSE, "F1"),
                           Entry("big.txt", FALSE, FALSE, "F2"),
                           Entry("sub", TRUE, FALSE, "D1") >>),
               D1 |-> DirObj(Dots("D1", "R") \o
                        << Entry("b.txt", FALSE, FALSE, "F3") >>),
               F1 |-> FileA1, F2 |-> FileABig, F3 |-> FileA2]]

\* the trees in which every file holds one occurrence of one identifier
SameIdTrees == {TreeSame, TreeSameBig}

\* the path given on the command line names a regular file
TreeFile == [root |-> "F1", objs |-> [F1 |-> FileA1]]

FileSystems == {TreeLoops, TreeAlias, TreeFile} \cup SameIdTrees

RootPath == <<"root">>

\* one activation of scan_path_recursive: its path, the object the path
\* names, the entry in fd (0 before FindFirstFileW)
Frame(path, obj, idx) == [path |-> path, obj |-> obj, idx |-> idx]

Top == stack[Len(stack)]
TopDir == fs.objs[Top.obj]
TopFd == TopDir.entries[Top.idx]

\* the stack after the top activation returned: its caller is at the
\* while (FindNextFileW(f, &fd)) of the entry it recursed on
Returned(stk) ==
    LET n == Len(stk) - 1
    IN  IF n = 0 THEN <<>>
        ELSE [SubSeq(stk, 1, n) EXCEPT ![n].idx = @ + 1]

WalkInit ==
    /\ fs \in FileSystems
    /\ \E l \in {0, 1}, r \in {0, 1} :
          opt = [ZeroOpt EXCEPT !.locate = l, !.with_registry = r]
    /\ pc = "cmd_scan"
    /\ set = [items |-> <<>>, used |-> <<>>, cap |-> 0, len |-> 0]
    /\ st = ZeroStat /\ out = <<>> /\ hits = <<>>
    /\ stack = <<>> /\ visited = <<>> /\ scanned = <<>> /\ errs = <<>>
    /\ ret = 0
    /\ win = ZeroGuid
    /\ SetHistoryIdle /\ ReaderIdle
    /\ RegIdle

\* Each step below is written as its control part (the position in cmd_scan
\* and the activations of scan_path_recursive: pc and stack) and the rest.

CmdScanStartCtl(heapOk) ==
    /\ pc = "cmd_scan"
    /\ IF heapOk
       THEN pc' = "walk" /\ stack' = << Frame(RootPath, fs.root, 0) >>
       ELSE pc' = "done" /\ stack' = stack

\* cmd_scan up to its call of scan_path_recursive
CmdScanStart(heapOk) ==
    /\ CmdScanStartCtl(heapOk)
    /\ \E r \in {guidset_init(256, heapOk)} :
          IF r.ok = 1
          THEN /\ set' = r.s
               /\ visited' = << RootPath >>
               /\ UNCHANGED <<ret, out>>
          ELSE /\ ret' = 1
               /\ out' = Append(out, [kind |-> "Out of memory."])
               /\ UNCHANGED <<set, visited>>
    /\ UNCHANGED <<st, opt, hits, fs, scanned, errs, win, add_failed, added,
                   dups, readerVars, regVars>>

WalkOutcomes == {"ok", "GetFileAttributesW", "FindFirstFileW"}

EnterDirCtl(how) ==
    /\ pc = "walk" /\ stack # <<>> /\ Top.idx = 0
    /\ how \in WalkOutcomes
    /\ how = "GetFileAttributesW" \/ TopDir.dir
    /\ stack' = IF how = "ok"
                THEN [stack EXCEPT ![Len(stack)].idx = 1]
                ELSE Returned(stack)
    /\ pc' = pc

\* scan_path_recursive from its entry to the first fd of a directory, or
\* to its return where GetFileAttributesW or FindFirstFileW fails
EnterDir(how) ==
    /\ EnterDirCtl(how)
    /\ errs' = IF how = "ok" THEN errs
               ELSE Append(errs, [api |-> how, path |-> Top.path])
    /\ UNCHANGED <<set, st, opt, out, hits, fs, visited, scanned, ret,
                   win, add_failed, added, dups, readerVars, regVars>>

ScanRootFileCtl ==
    /\ pc = "walk" /\ stack # <<>> /\ Top.idx = 0
    /\ ~TopDir.dir
    /\ stack' = Returned(stack)
    /\ pc' = pc

\* the else branch: the path names a file, which is scanned
ScanRootFile(how, heapOk) ==
    /\ ScanRootFileCtl
    /\ how \in OpenOutcomes
    /\ \E r \in {scan_stream_for_guids(Sink(set, st, out, hits, add_failed),
                     Top.path, opt, TopDir.bytes, how, heapOk)} :
          /\ set' = r.k.set /\ st' = r.k.st /\ out' = r.k.out
          /\ hits' = r.k.hits /\ add_failed' = r.k.add_failed
    /\ scanned' = Append(scanned, Top.path)
    /\ errs' = IF how = "ok" THEN errs
               ELSE Append(errs, [api |-> how, path |-> Top.path])
    /\ UNCHANGED <<opt, fs, visited, ret, win, added, dups, readerVars, regVars>>

InList ==
    /\ pc = "walk" /\ stack # <<>>
    /\ Top.idx >= 1 /\ Top.idx <= Len(TopDir.entries)

SkipEntryCtl ==
    /\ InList
    /\ entry_action(TopFd) = "continue"
    /\ stack' = [stack EXCEPT ![Len(stack)].idx = @ + 1]
    /\ pc' = pc

\* the body of the do-while on an entry that is skipped, then FindNextFileW
SkipEntry ==
    /\ SkipEntryCtl
    /\ UNCHANGED <<set, st, opt, out, hits, fs, errs, visited, scanned, ret,
                   win, add_failed, added, dups, readerVars, regVars>>

RecurseCtl ==
    /\ InList
    /\ entry_action(TopFd) = "recurse"
    /\ Len(stack) < MaxDepth
    /\ stack' = Append(stack, Frame(join_path(Top.path, TopFd.name),
                                    TopFd.obj, 0))
    /\ pc' = pc

\* the body on a directory: the recursive call
Recurse ==
    /\ RecurseCtl
    /\ visited' = Append(visited, join_path(Top.path, TopFd.name))
    /\ UNCHANGED <<set, st, opt, out, hits, fs, errs, scanned, ret, win,
                   add_failed, added, dups, readerVars, regVars>>

ScanChildCtl ==
    /\ InList
    /\ entry_action(TopFd) = "scan"
    /\ stack' = [stack EXCEPT ![Len(stack)].idx = @ + 1]
    /\ pc' = pc

\* the body on a file: scan_stream_for_guids(child), then FindNextFileW
ScanChild(how, heapOk) ==
    /\ ScanChildCtl
    /\ how \in OpenOutcomes
    /\ \E child \in {join_path(Top.path, TopFd.name)} :
          /\ \E r \in {scan_stream_for_guids(
                           Sink(set, st, out, hits, add_failed), child, opt,
                           fs.objs[TopFd.obj].bytes, how, heapOk)} :
                /\ set' = r.k.set /\ st' = r.k.st /\ out' = r.k.out
                /\ hits' = r.k.hits /\ add_failed' = r.k.add_failed
          /\ scanned' = Append(scanned, child)
          /\ errs' = IF how = "ok" THEN errs
                     ELSE Append(errs, [api |-> how, path |-> child])
    /\ UNCHANGED <<opt, fs, visited, ret, win, added, dups, readerVars, regVars>>

LeaveDirCtl ==
    /\ pc = "walk" /\ stack # <<>>
    /\ Top.idx > Len(TopDir.entries)
    /\ stack' = Returned(stack)
    /\ pc' = pc

\* FindNextFileW returns FALSE: FindClose and return
LeaveDir ==
    /\ LeaveDirCtl
    /\ UNCHANGED <<set, st, opt, out, hits, fs, errs, visited, scanned, ret,
                   win, add_failed, added, dups, readerVars, regVars>>

EnumFailCtl ==
    /\ InList /\ Top.idx >= 2
    /\ stack' = Returned(stack)
    /\ pc' = pc

\* FindNextFileW returns FALSE for an error while entries remain: the loop
\* ends as at the end of the listing, without a call of verror
EnumFail ==
    /\ EnumFailCtl
    /\ errs' = Append(errs, [api |-> "FindNextFileW", path |-> Top.path])
    /\ UNCHANGED <<set, st, opt, out, hits, fs, visited, scanned, ret,
                   win, add_failed, added, dups, readerVars, regVars>>

\* a mutant of print_guid_cb: the registry is queried whatever the options
print_guid_cb_always_queries(g, o) ==
    [kind |-> "guid", g |-> g, registry |-> 1]

\* print_guid_cb(g, ctx): the line with the identifier, and registry = 1
\* when query_all_categories(g) is called after it
print_guid_cb(g, o) ==
    [kind |-> "guid", g |-> g, registry |-> o.with_registry]

RECURSIVE foreach_lines(_, _, _)
\* what print_guid_cb prints over slots lo+1 .. hi, in slot order
foreach_lines(s, lo, hi) ==
    IF hi <= lo THEN <<>>
    ELSE IF hi = lo + 1
    THEN IF s.used[hi] = 1
         THEN << print_guid_cb(s.items[hi], opt) >>
         ELSE <<>>
    ELSE LET mid == (lo + hi) \div 2
             l   == foreach_lines(s, lo, mid)
         IN  IF Len(l) >= 0 THEN l \o foreach_lines(s, mid, hi) ELSE <<>>

ReportCtl ==
    /\ pc = "walk" /\ stack = <<>>
    /\ pc' = "done" /\ stack' = stack

\* cmd_scan after scan_path_recursive returned: the statistics, the unique
\* identifiers, return 0
Report ==
    /\ ReportCtl
    /\ \E stats \in {IF opt.one_line = 0 /\ opt.locate = 0
                     THEN << [kind |-> "Scan", files |-> st.files_scanned,
                              bytes |-> st.bytes_scanned,
                              ascii_hits |-> st.ascii_hits,
                              bin_hits |-> st.bin_hits,
                              unique |-> set.len] >>
                     ELSE <<>>} :
          out' = out \o stats \o foreach_lines(set, 0, set.cap)
    /\ ret' = 0
    /\ UNCHANGED <<set, st, opt, hits, fs, errs, visited, scanned, win,
                   add_failed, added, dups, readerVars, regVars>>

WalkNext ==
    \/ \E h \in BOOLEAN : CmdScanStart(h)
    \/ \E how \in WalkOutcomes : EnterDir(how)
    \/ \E how \in OpenOutcomes, h \in BOOLEAN : ScanRootFile(how, h)
    \/ SkipEntry
    \/ Recurse
    \/ \E how \in OpenOutcomes, h \in BOOLEAN : ScanChild(how, h)
    \/ LeaveDir
    \/ EnumFail
    \/ Report

SpecWalk == WalkInit /\ [][WalkNext]_vars

\* the control part of WalkNext; every step of WalkNext changes pc or stack
WalkControl ==
    \/ \E h \in BOOLEAN : CmdScanStartCtl(h)
    \/ \E how \in WalkOutcomes : EnterDirCtl(how)
    \/ ScanRootFileCtl
    \/ SkipEntryCtl
    \/ RecurseCtl
    \/ ScanChildCtl
    \/ LeaveDirCtl
    \/ EnumFailCtl
    \/ ReportCtl

\* the walk is one thread of a running process: while a step of it is
\* possible, it takes one
SpecWalkFair == SpecWalk /\ WF_<<pc, stack>>(WalkControl)

---------------------------------------------------------------------------
(* Claims about the walk                                                   *)

RECURSIVE ObjAt(_)
\* the object a path of the walk names
ObjAt(p) ==
    IF Len(p) = 1 THEN fs.root
    ELSE LET d == fs.objs[ObjAt(SubSeq(p, 1, Len(p) - 1))]
             e == CHOOSE x \in {d.entries[i] : i \in 1..Len(d.entries)} :
                      x.name = p[Len(p)]
         IN  e.obj

\* the directory entry a path of the walk (other than the root) names
EntryAt(p) ==
    LET d == fs.objs[ObjAt(SubSeq(p, 1, Len(p) - 1))]
    IN  CHOOSE x \in {d.entries[i] : i \in 1..Len(d.entries)} :
            x.name = p[Len(p)]

Range(q) == {q[i] : i \in 1..Len(q)}

\* p lies at or below a directory entry that is a reparse point
UnderReparse(p) ==
    \E n \in 2..Len(p) : EntryAt(SubSeq(p, 1, n)).reparse

\* C7: no path the walk calls scan_path_recursive or scan_stream_for_guids
\* on is a reparse-point entry or lies below one, whatever the depth.
C7_ReparseNeverTraversed ==
    \A p \in Range(visited) \cup Range(scanned) : ~UnderReparse(p)

\* the walk has met reparse entries at depth 1, 2 and 3 (it went through
\* every directory of the tree with junctions) and scanned files below
C7_Witness ==
    /\ fs = TreeLoops /\ pc = "done"
    /\ Len(visited) = 3
    /\ <<"root", "sub", "deep", "c.txt">> \in Range(scanned)

NoRevisit ==
    /\ \A i, j \in 1..Len(visited) : visited[i] = visited[j] => i = j
    /\ \A i, j \in 1..Len(scanned) : scanned[i] = scanned[j] => i = j

\* C8: on a finite tree, junction cycles included, the walk returns (cmd_scan
\* reaches its end), no path is entered or scanned twice on the way, and the
\* nesting of the calls stays below MaxDepth (the bound never stops a call).
C8_WalkTerminates ==
    (<>(pc = "done")) /\ [](NoRevisit /\ Len(stack) < MaxDepth)

\* the walk over the tree whose junctions form cycles has returned after
\* entering its three directories and scanning its three files
C8_Witness ==
    /\ fs = TreeLoops /\ pc = "done" /\ ret = 0
    /\ Len(visited) = 3 /\ Len(scanned) = 3

---------------------------------------------------------------------------
(* SpecParse: match_guid_ascii_at on one text, then the ASCII loop of one  *)
(* pass over a buffer that holds the text                                  *)

\* the digit patterns tried besides NibsA and NibsB: Nibs(0) .. Nibs(MaxSeed)
MaxSeed == 13

Nibs(seed) == [i \in 1..32 |-> (seed * i + (i \div 3) + (seed \div 5)) % 16]

NibSets == {NibsA, NibsB} \cup {Nibs(sd) : sd \in 0..MaxSeed}

\* the ASCII codes of "Hello " and " world"
Hello == <<72, 101, 108, 108, 111, 32>>
World == <<32, 119, 111, 114, 108, 100>>

\* what is done to one character of the 36: nothing (pos = -1), or the
\* character at pos is replaced by c: 'g' for the first digit, '0' for the
\* first dash, 'G' for the last digit
Damages ==
    { [pos |-> -1, c |-> 0], [pos |-> 0, c |-> 103], [pos |-> 8, c |-> ChZero],
      [pos |-> 35, c |-> 71] }

Damaged(t, dmg) ==
    IF dmg.pos < 0 THEN t ELSE [t EXCEPT ![dmg.pos + 1] = dmg.c]

\* the characters next to the hex digits in ASCII ('/', ':', '@', 'G', '`',
\* 'g'), the dash and the space, put at the first digit, a middle digit and
\* the last digit; and each dash replaced by 'a'
MoreDamages ==
    [pos : {0, 12, 35}, c : {47, 58, 64, 71, 96, 103, ChDash, 32}]
        \cup [pos : {8, 13, 18, 23}, c : {ChLoA}]

\* the text of a case: the identifier, possibly damaged, braced (with ')',
\* code 41, for the closing brace when badClose) and inside "Hello ... world", less its last cut
\* bytes
CaseText(cs) ==
    LET body == Damaged(Text36(cs.nibs, cs.lower), cs.dmg)
        id   == IF cs.braced
                THEN <<ChLBrace>> \o body
                        \o << IF cs.badClose THEN 41 ELSE ChRBrace >>
                ELSE body
        t    == IF cs.inText THEN Hello \o id \o World ELSE id
    IN  SubSeq(t, 1, Len(t) - cs.cut)

\* where the identifier starts in the text of a case
CaseOff(cs) == IF cs.inText THEN Len(Hello) ELSE 0

\* well-formed and slightly damaged identifiers over every digit pattern;
\* one pattern with more damages; texts that end early; wrong closing brace
ParseCases ==
    [nibs : NibSets, lower : BOOLEAN, braced : BOOLEAN, inText : BOOLEAN,
     dmg : Damages, cut : {0}, badClose : {FALSE}]
    \cup
    [nibs : {NibsA}, lower : BOOLEAN, braced : BOOLEAN, inText : {FALSE},
     dmg : MoreDamages, cut : {0}, badClose : {FALSE}]
    \cup
    [nibs : {NibsA}, lower : BOOLEAN, braced : BOOLEAN, inText : {FALSE},
     dmg : {[pos |-> -1, c |-> 0]}, cut : 1..3, badClose : {FALSE}]
    \cup
    [nibs : {NibsA, NibsB}, lower : BOOLEAN, braced : {TRUE},
     inText : BOOLEAN, dmg : {[pos |-> -1, c |-> 0]}, cut : {0},
     badClose : {TRUE}]

NoMatch == [ok |-> 0, consumed |-> 0, g |-> <<>>]

ParseInit ==
    /\ win \in ParseCases
    /\ buf = CaseText(win)
    /\ pc = "text"
    /\ ret = NoMatch
    /\ set = EmptySet /\ st = ZeroStat /\ out = <<>> /\ hits = <<>>
    /\ opt = [ZeroOpt EXCEPT !.locate = 1]
    /\ file = NoFile /\ fpos = 0 /\ keep = 0 /\ base_off = 0
    /\ nshort = 0 /\ reads = <<>>
    /\ SetHistoryIdle /\ WalkIdle
    /\ RegIdle

\* match_guid_ascii_at(buf + off, avail - off, &consumed, &g) at the start
\* of the identifier
MatchText ==
    /\ pc = "text"
    /\ pc' = "matched"
    /\ ret' = match_guid_ascii_at(buf, CaseOff(win), Len(buf) - CaseOff(win))
    /\ UNCHANGED <<set, win, add_failed, added, dups, readerVars, walkVars,
                   sinkVars, regVars>>

\* the ASCII loop over the buffer, as in the first iteration of the
\* chunk loop (keep = 0, base_off = 0, avail = the length of the text)
ScanText(heapOk) ==
    /\ pc = "matched"
    /\ pc' = "scanned"
    /\ \E k \in {ascii_scan(Sink(set, st, out, hits, add_failed), ThePath,
                            opt, buf, Len(buf), 0, heapOk)} :
          /\ set' = k.set /\ st' = k.st /\ out' = k.out /\ hits' = k.hits
          /\ add_failed' = k.add_failed
    /\ UNCHANGED <<opt, win, ret, added, dups, readerVars, walkVars, regVars>>

ParseNext == MatchText \/ \E h \in BOOLEAN : ScanText(h)

SpecParse == ParseInit /\ [][ParseNext]_vars

\* the number four hex digits of a digit pattern denote, from digit i on
Hex4(nibs, i) ==
    ((nibs[i] * 16 + nibs[i + 1]) * 16 + nibs[i + 2]) * 16 + nibs[i + 3]

\* the fields of a GUID in memory: Data1 as its two 16-bit halves, Data2,
\* Data3 (little-endian), Data4[j]
Data1Hi(g) == g[4] * 256 + g[3]
Data1Lo(g) == g[2] * 256 + g[1]
Data2(g)   == g[6] * 256 + g[5]
Data3(g)   == g[8] * 256 + g[7]
Data4(g, j) == g[9 + j]

\* the bytes of 6F9619FF / 8B86 / D011 / B4 2D 00 C0 4F C9 64 FF in memory
ExampleGuid ==
    <<255, 25, 150, 111, 134, 139, 17, 208, 180, 45, 0, 192, 79, 201, 100, 255>>

\* the ASCII codes of {6F9619FF-8B86-D011-B42D-00C04FC964FF}
ExampleText ==
    <<123, 54, 70, 57, 54, 49, 57, 70, 70, 45, 56, 66, 56, 54, 45, 68, 48, 49,
      49, 45, 66, 52, 50, 68, 45, 48, 48, 67, 48, 52, 70, 67, 57, 54, 52, 70,
      70, 125>>

\* C12: an accepted text decodes to Data1 = digits 1-8 (most significant
\* first), Data2 = digits 9-12, Data3 = digits 13-16, Data4 = one byte per
\* pair of the remaining digits in order; the example text decodes to the
\* example value, and one pass over Hello {example} world counts exactly one
\* ASCII hit, at the brace.
C12_DecodedFields ==
    /\ (pc \in {"matched", "scanned"} /\ ret.ok = 1) =>
          /\ Data1Hi(ret.g) = Hex4(win.nibs, 1)
          /\ Data1Lo(ret.g) = Hex4(win.nibs, 5)
          /\ Data2(ret.g) = Hex4(win.nibs, 9)
          /\ Data3(ret.g) = Hex4(win.nibs, 13)
          /\ \A j \in 0..7 :
                Data4(ret.g, j)
                   = win.nibs[17 + 2 * j] * 16 + win.nibs[18 + 2 * j]
    /\ (pc \in {"matched", "scanned"} /\ buf = Hello \o ExampleText \o World) =>
          /\ ret.ok = 1 /\ ret.consumed = BracedLen /\ ret.g = ExampleGuid
    /\ (pc = "scanned" /\ buf = Hello \o ExampleText \o World) =>
          /\ st.ascii_hits = 1 /\ Len(hits) = 1
          /\ hits[1].off = Len(Hello) /\ hits[1].g = ExampleGuid
          /\ hits[1].kind = "ascii"

\* the example inside Hello ... world was matched and scanned
C12_Witness ==
    /\ pc = "scanned" /\ buf = Hello \o ExampleText \o World
    /\ ret.ok = 1 /\ ret.g = ExampleGuid /\ st.ascii_hits = 1

\* the regular files the walk of fs reaches when nothing fails
FilesOf(tree) ==
    {o \in DOMAIN tree.objs : ~tree.objs[o].dir}

\* C13: when each of the K files of the tree holds one occurrence of the
\* same identifier and no call failed, the walk ends with ascii_hits = K,
\* files_scanned = K and one identifier in the set.
C13_HitsPerOccurrence ==
    (pc = "done" /\ fs \in SameIdTrees /\ errs = <<>> /\ ret = 0) =>
        /\ st.ascii_hits = Cardinality(FilesOf(fs))
        /\ st.files_scanned = Cardinality(FilesOf(fs))
        /\ set.len = 1

\* the calls C17 is about: the attribute query, the enumeration (its start
\* and its continuation), the open of a file
EntryFailures ==
    {"GetFileAttributesW", "FindFirstFileW", "FindNextFileW", "CreateFileW"}

\* the directories the walk entered and enumerated: visited, a directory,
\* and neither GetFileAttributesW nor FindFirstFileW failed on it
Enumerated ==
    {d \in Range(visited) :
        /\ fs.objs[ObjAt(d)].dir
        /\ \A i \in 1..Len(errs) : errs[i].path # d}

\* every entry of an enumerated directory got its call
AllEntriesHandled ==
    \A d \in Enumerated :
        LET es == fs.objs[ObjAt(d)].entries
        IN  \A i \in 1..Len(es) :
               /\ entry_action(es[i]) = "recurse"
                     => join_path(d, es[i].name) \in Range(visited)
               /\ entry_action(es[i]) = "scan"
                     => join_path(d, es[i].name) \in Range(scanned)

\* C17: a step in which GetFileAttributesW, FindFirstFileW, FindNextFileW or
\* CreateFileW fails changes neither the statistics nor the set and leaves the walk
\* running; and when the walk is over, every entry of every directory that
\* could be enumerated was visited (a directory) or scanned (a file),
\* whatever failed elsewhere.
C17_FailureNotFatal ==
    /\ [][(Len(errs') > Len(errs)
            /\ errs'[Len(errs')].api \in EntryFailures)
               => (st' = st /\ set' = set /\ pc' = "walk")]_vars
    /\ [](pc = "done" /\ ret = 0 => AllEntriesHandled)

\* the walk over the tree with junctions is over; the open of a.txt and the
\* enumeration of sub/deep failed, b.txt after them was scanned
C17_Witness ==
    /\ pc = "done" /\ fs = TreeLoops /\ Len(errs) = 2
    /\ errs[1] = [api |-> "CreateFileW", path |-> <<"root", "a.txt">>]
    /\ errs[2].api = "FindFirstFileW"
    /\ <<"root", "sub", "b.txt">> \in Range(scanned)
    /\ st.files_scanned = 1

\* the paths scan_stream_for_guids was called with that lie below a
\* sub-directory of the root
ScannedBelowSubdir == {p \in Range(scanned) : Len(p) > 2}

\* C19: the walk recurses only when recursion is enabled. Nothing on the
\* command line of "scan" enables it, so a scan without options has it
\* disabled: no activation of scan_path_recursive below the root's, no file
\* below a sub-directory scanned; and, with or without recursion, every
\* regular-file child of an enumerated directory is scanned.
C19_RecursionOnlyWhenEnabled ==
    /\ opt = ZeroOpt => (Len(stack) <= 1 /\ ScannedBelowSubdir = {})
    /\ (pc = "done" /\ ret = 0) =>
          \A d \in Enumerated :
             LET es == fs.objs[ObjAt(d)].entries
             IN  \A i \in 1..Len(es) :
                    entry_action(es[i]) = "scan"
                       => join_path(d, es[i].name) \in Range(scanned)

\* the part of C19 the code keeps: every regular-file child of an enumerated
\* directory is scanned
C19_FilesAlwaysScanned ==
    (pc = "done" /\ ret = 0) =>
        \A d \in Enumerated :
           LET es == fs.objs[ObjAt(d)].entries
           IN  \A i \in 1..Len(es) :
                  entry_action(es[i]) = "scan"
                     => join_path(d, es[i].name) \in Range(scanned)

\* the records of out that print_guid_cb wrote
GuidLines == {i \in DOMAIN out : out[i].kind = "guid"}

\* the calls of query_all_categories
RegistryQueries == {i \in GuidLines : out[i].registry = 1}

\* C20: query_all_categories is called only after the walk; with --registry
\* it is called once for each identifier of the set and for nothing else,
\* without --registry it is never called.
C20_RegistryOncePerIdentifier ==
    /\ pc # "done" => RegistryQueries = {}
    /\ (pc = "done" /\ opt.with_registry = 0) => RegistryQueries = {}
    /\ (pc = "done" /\ ret = 0 /\ opt.with_registry = 1) =>
          /\ Cardinality(RegistryQueries) = set.len
          /\ {out[i].g : i \in RegistryQueries} = Stored(set)
          /\ Cardinality(Stored(set)) = set.len

\* a scan with --registry is over and two identifiers were looked up
C20_Witness ==
    /\ pc = "done" /\ opt.with_registry = 1
    /\ set.len = 2 /\ Cardinality(RegistryQueries) = 2
    /\ st.ascii_hits >= 3

\* the bytes left from the start of the identifier to the end of the text
Remaining == Len(buf) - CaseOff(win)

\* byte i of the text counted from the start of the identifier
TextByte(i) == buf[CaseOff(win) + i + 1]

\* a hex digit, by its ASCII code
HexDigit(c) == c \in (48..57) \cup (65..70) \cup (97..102)

\* the 36 bytes from byte first on: dashes at 8, 13, 18, 23, hex digits
\* elsewhere
ValidBody(first) ==
    \A i \in 0..35 :
        IF i \in {8, 13, 18, 23} THEN TextByte(first + i) = 45
        ELSE HexDigit(TextByte(first + i))

BracedCase ==
    /\ Remaining >= 38 /\ TextByte(0) = 123 /\ TextByte(37) = 125
    /\ ValidBody(1)

UnbracedCase == Remaining >= 36 /\ ValidBody(0)

\* C26: match_guid_ascii_at succeeds exactly in the braced case (38 bytes
\* consumed) and in the unbraced case (36 bytes consumed); in every other
\* case it fails and nothing is consumed.
C26_MatchExact ==
    pc \in {"matched", "scanned"} =>
        /\ ret.ok = 1 <=> (BracedCase \/ UnbracedCase)
        /\ BracedCase => ret.consumed = 38
        /\ UnbracedCase => ret.consumed = 36
        /\ ret.ok = 0 => (ret.consumed = 0 /\ ret.g = <<>>)

\* a braced identifier was matched
C26_Witness ==
    /\ pc = "matched" /\ win.braced /\ win.cut = 0 /\ ~win.inText
    /\ BracedCase /\ ret.ok = 1 /\ ret.consumed = 38

\* texts that were rejected: the closing brace is wrong; the closing brace
\* is cut off; a digit is ':'
C26_RejectedClose ==
    pc = "matched" /\ win.badClose /\ ret.ok = 0
C26_RejectedCut ==
    pc = "matched" /\ win.braced /\ win.cut = 1 /\ Remaining = 37 /\ ret.ok = 0
C26_RejectedDigit ==
    pc = "matched" /\ win.dmg = [pos |-> 12, c |-> 58] /\ ret.ok = 0

---------------------------------------------------------------------------
(* SpecReg: cmd_find, the registry view helpers and query_all_categories   *)

\* the registry views of winnt.h, as access-mask bits
KEY_WOW64_64KEY == 256
KEY_WOW64_32KEY == 512

\* OPTS.reg_view: "0, KEY_WOW64_32KEY, KEY_WOW64_64KEY"
Views == {0, KEY_WOW64_32KEY, KEY_WOW64_64KEY}

\* one call of a helper; fromOpt: the argument is g_opt.reg_view, read when
\* the call is made
Call(fn, fromOpt, viewFlag) ==
    [fn |-> fn, fromOpt |-> fromOpt, viewFlag |-> viewFlag]

QueryFns ==
    << "query_clsid_view", "query_iid_view", "query_typelib_view",
       "query_appid_view" >>

\* the calls query_all_categories makes, in order
query_all_categories(o) ==
    IF o.both_views = 0
    THEN [i \in 1..4 |-> Call(QueryFns[i], TRUE, 0)]
    ELSE [i \in 1..4 |-> Call(QueryFns[i], FALSE, KEY_WOW64_64KEY)]
         \o [i \in 1..4 |-> Call(QueryFns[i], FALSE, KEY_WOW64_32KEY)]

\* a mutant of view_on_return: the early return does not restore
view_kept_on_early_return(fr, how) ==
    IF how = "open_failed" THEN fr.viewFlag ELSE fr.saved

\* what a helper leaves in g_opt.reg_view when it returns: after the key
\* could not be opened, or at its end
view_on_return(fr, how) == fr.saved

RegInit ==
    /\ g_opt \in [verbose : {0}, reg_view : Views, both_views : {0, 1}]
    /\ view0 = g_opt.reg_view
    /\ frame = NoFrame /\ calls = <<>>
    /\ pc = "cmd_find"
    /\ ret = 0
    /\ win = ZeroGuid
    /\ set = guidset_init(256, TRUE).s
    /\ SetHistoryIdle /\ ReaderIdle /\ WalkIdle /\ SinkIdle

\* cmd_find up to its first call of any_registry_hit_view
CmdFindStart ==
    /\ pc = "cmd_find"
    /\ pc' = "call"
    /\ calls' = << Call("any_registry_hit_view", g_opt.both_views = 0,
                        KEY_WOW64_64KEY) >>
    /\ UNCHANGED <<set, win, ret, g_opt, frame, view0, add_failed, added,
                   dups, readerVars, walkVars, sinkVars>>

\* the head of every helper: saved = g_opt.reg_view; g_opt.reg_view = viewFlag
EnterHelper ==
    /\ pc = "call" /\ calls # <<>>
    /\ pc' = "helper"
    /\ \E v \in {IF Head(calls).fromOpt THEN g_opt.reg_view
                 ELSE Head(calls).viewFlag} :
          /\ frame' = [fn |-> Head(calls).fn, viewFlag |-> v,
                       saved |-> g_opt.reg_view, entry |-> g_opt.reg_view]
          /\ g_opt' = [g_opt EXCEPT !.reg_view = v]
    /\ calls' = Tail(calls)
    /\ UNCHANGED <<set, win, ret, view0, add_failed, added, dups,
                   readerVars, walkVars, sinkVars>>

\* query_clsid_view, query_iid_view, query_typelib_view, query_appid_view
\* from reg_open_hkcr on: the key cannot be opened (early return), or it is
\* read under the current view and printed
QueryReturn(how) ==
    /\ pc = "helper"
    /\ \E i \in 1..4 : frame.fn = QueryFns[i]
    /\ how \in {"open_failed", "end"}
    /\ pc' = "call"
    /\ g_opt' = [g_opt EXCEPT !.reg_view = view_on_return(frame, how)]
    /\ out' = IF how = "end"
              THEN Append(out, [kind |-> frame.fn, view |-> g_opt.reg_view])
              ELSE out
    /\ frame' = NoFrame
    /\ UNCHANGED <<set, st, opt, hits, win, ret, calls, view0, add_failed,
                   added, dups, readerVars, walkVars>>

\* any_registry_hit_view from its first reg_open_hkcr on, and what cmd_find
\* does with its result: the second view, the message, or
\* query_all_categories
AnyHitReturn(hit) ==
    /\ pc = "helper"
    /\ frame.fn = "any_registry_hit_view"
    /\ hit \in {0, 1}
    /\ pc' = "call"
    /\ g_opt' = [g_opt EXCEPT !.reg_view = view_on_return(frame, "end")]
    /\ ret' = hit
    /\ calls' = IF hit = 1 THEN query_all_categories(g_opt)
                ELSE IF g_opt.both_views = 1
                        /\ frame.viewFlag = KEY_WOW64_64KEY
                THEN << Call("any_registry_hit_view", FALSE,
                             KEY_WOW64_32KEY) >>
                ELSE <<>>
    /\ out' = IF calls' = <<>> THEN Append(out, [kind |-> "no HKCR hits",
                                                 view |-> g_opt.reg_view])
              ELSE out
    /\ frame' = NoFrame
    /\ UNCHANGED <<set, st, opt, hits, win, view0, add_failed, added, dups,
                   readerVars, walkVars>>

\* cmd_find returns 0
CmdFindReturn ==
    /\ pc = "call" /\ calls = <<>>
    /\ pc' = "done"
    /\ ret' = 0
    /\ UNCHANGED <<set, win, g_opt, frame, calls, view0, add_failed, added,
                   dups, readerVars, walkVars, sinkVars>>

RegNext ==
    \/ CmdFindStart
    \/ EnterHelper
    \/ \E how \in {"open_failed", "end"} : QueryReturn(how)
    \/ \E hit \in {0, 1} : AnyHitReturn(hit)
    \/ CmdFindReturn

SpecReg == RegInit /\ [][RegNext]_vars

\* the lines the four query helpers printed
QueryLines == {i \in DOMAIN out : \E j \in 1..4 : out[i].kind = QueryFns[j]}

\* C30: every helper returns with g_opt.reg_view equal to its value at the
\* helper's entry, on the early return too; so between the calls and after
\* query_all_categories returned, reg_view is what it was when the command
\* started.
C30_RegViewRestored ==
    /\ [][(pc = "helper" /\ pc' = "call") =>
             g_opt'.reg_view = frame.entry]_vars
    /\ [](pc \in {"call", "done"} => g_opt.reg_view = view0)

\* the command ran with --wow32 and --both-views: helpers ran under the
\* 64-bit view, some returned early, and reg_view is the 32-bit view again
C30_Witness ==
    /\ pc = "done" /\ g_opt.both_views = 1 /\ view0 = KEY_WOW64_32KEY
    /\ g_opt.reg_view = KEY_WOW64_32KEY
    /\ \E i \in QueryLines : out[i].view = KEY_WOW64_64KEY
    /\ Cardinality(QueryLines) \in 1..7

=============================================================================
